---- MODULE Spec2Model ----
(***************************************************************************)
(* penweb: the two probe loops (utils/ddos.py make_requests_until_blocked  *)
(* and services/attempt_login.py attempt_credential_combinations), the     *)
(* password generator and the login-form inspector they use.               *)
(*                                                                         *)
(* Optional values (Python None) are tuples: None is <<>>, a present value *)
(* x is <<x>>.  Strings are TLA+ strings; TLC evaluates Len, SubSeq and \o *)
(* on them, so substring tests and case conversion are computed character  *)
(* by character as str.lower / str.upper / "in" / endswith do.             *)
(***************************************************************************)
EXTENDS Integers, Sequences, FiniteSets, TLC

None == <<>>
Some(x) == <<x>>
Val(o) == o[1]

(***************************************************************************)
(* Bounds of the model.                                                    *)
(***************************************************************************)
\* largest max_attempts value a caller passes
MaxCap == 3
\* responses other than the ordinary login failure a server gives in one run
MaxOdd == 2
\* exchanges of a generic run explored when the server never blocks
MaxRun == 4

(***************************************************************************)
(* Python string primitives.                                               *)
(***************************************************************************)
UpperChars == "ABCDEFGHIJKLMNOPQRSTUVWXYZ"
LowerChars == "abcdefghijklmnopqrstuvwxyz"
DigitChars == "0123456789"

CharAt(s, i) == SubSeq(s, i, i)

LowerChar(c) ==
    IF \E i \in 1..Len(UpperChars) : CharAt(UpperChars, i) = c
    THEN CharAt(LowerChars, CHOOSE i \in 1..Len(UpperChars) : CharAt(UpperChars, i) = c)
    ELSE c

UpperChar(c) ==
    IF \E i \in 1..Len(LowerChars) : CharAt(LowerChars, i) = c
    THEN CharAt(UpperChars, CHOOSE i \in 1..Len(LowerChars) : CharAt(LowerChars, i) = c)
    ELSE c

RECURSIVE Lower(_)
Lower(s) == IF Len(s) = 0 THEN "" ELSE LowerChar(CharAt(s, 1)) \o Lower(SubSeq(s, 2, Len(s)))

RECURSIVE Upper(_)
Upper(s) == IF Len(s) = 0 THEN "" ELSE UpperChar(CharAt(s, 1)) \o Upper(SubSeq(s, 2, Len(s)))

Capitalize(s) ==
    IF Len(s) = 0 THEN "" ELSE UpperChar(CharAt(s, 1)) \o Lower(SubSeq(s, 2, Len(s)))

\* Python's "t in s" on strings
Contains(s, t) ==
    \E i \in 1..(Len(s) - Len(t) + 1) : SubSeq(s, i, i + Len(t) - 1) = t

StartsWith(s, t) == Len(s) >= Len(t) /\ SubSeq(s, 1, Len(t)) = t

EndsWith(s, t) == Len(s) >= Len(t) /\ SubSeq(s, Len(s) - Len(t) + 1, Len(s)) = t

RECURSIVE IntToStr(_)
IntToStr(n) ==
    IF n < 10 THEN CharAt(DigitChars, n + 1)
    ELSE IntToStr(n \div 10) \o CharAt(DigitChars, (n % 10) + 1)

Last(q) == q[Len(q)]

\* Python's any(...) over a list of strings tested against one text
AnyIn(pats, text) == \E i \in 1..Len(pats) : Contains(text, pats[i])

SeqToSet(q) == {q[i] : i \in 1..Len(q)}

(***************************************************************************)
(* generate_password_combinations (attempt_login.py 12-42).  rnd[i] is the *)
(* value random.randint(1,99) returns for the i-th keyword.                *)
(***************************************************************************)
Variations(keyword, r) ==
    << keyword,
       Lower(keyword),
       Capitalize(keyword),
       Upper(keyword),
       keyword \o "123",
       keyword \o "2024",
       keyword \o "!",
       keyword \o "@123",
       "123" \o keyword,
       keyword \o "#" \o IntToStr(r) >>

\* Python's q[:n], negative n included
Take(q, n) ==
    IF n >= 0
    THEN SubSeq(q, 1, IF n < Len(q) THEN n ELSE Len(q))
    ELSE SubSeq(q, 1, IF Len(q) + n > 0 THEN Len(q) + n ELSE 0)

RECURSIVE ExtendAll(_, _, _, _)
ExtendAll(keywords, max_per_keyword, rnd, i) ==
    IF i > Len(keywords) THEN <<>>
    ELSE Take(Variations(keywords[i], rnd[i]), max_per_keyword)
         \o ExtendAll(keywords, max_per_keyword, rnd, i + 1)

RECURSIVE Dedup(_, _)
\* the list returned as it was extended, nothing removed
Dedup_KeepsAll(q, seen) == q

\* of several equal strings the last one kept, not the first
RECURSIVE Dedup_KeepsLast(_, _)
Dedup_KeepsLast(q, seen) ==
    IF q = <<>> THEN <<>>
    ELSE IF Head(q) \in SeqToSet(Tail(q)) THEN Dedup_KeepsLast(Tail(q), seen)
    ELSE <<Head(q)>> \o Dedup_KeepsLast(Tail(q), seen)

\* attempt_login.py 41-42: seen = set(); [p for p in passwords if not (p in
\* seen or seen.add(p))]

Dedup(q, seen) ==
    IF q = <<>> THEN <<>>
    ELSE IF Head(q) \in seen THEN Dedup(Tail(q), seen)
    ELSE <<Head(q)>> \o Dedup(Tail(q), seen \cup {Head(q)})

generate_password_combinations(keywords, max_per_keyword, rnd) ==
    Dedup(ExtendAll(keywords, max_per_keyword, rnd, 1), {})

\* the default of the max_per_keyword parameter
DefaultMaxPerKeyword == 10

(***************************************************************************)
(* detect_form_fields (attempt_login.py 45-93).  A document is the         *)
(* sequence of its elements in document order, as BeautifulSoup's find and *)
(* find_all visit them; an element is its tag and its attributes (<<>> for *)
(* an absent attribute).                                                   *)
(***************************************************************************)
Elem(tag, name, type, id, action, method) ==
    [tag |-> tag, name |-> name, type |-> type, id |-> id,
     action |-> action, method |-> method]

\* Python's "x or y" on optional strings
OrElse(a, b) == IF a = None \/ a = Some("") THEN b ELSE a
\* Python's "(x or '')" and dict.get(key, '')
OrEmpty(a) == IF a = None THEN "" ELSE Val(a)
\* Python's "not x" on an optional string
Falsy(a) == a = None \/ a = Some("")

email_patterns == <<"email", "username", "user", "login", "account">>

FindForm(doc) ==
    IF \E i \in 1..Len(doc) : doc[i].tag = "form"
    THEN Some(doc[CHOOSE i \in 1..Len(doc) :
                    /\ doc[i].tag = "form"
                    /\ \A j \in 1..(i - 1) : doc[j].tag # "form"])
    ELSE None

FormFieldsInit(doc) ==
    LET form == FindForm(doc) IN
    [email_field |-> None,
     password_field |-> None,
     form_action |-> IF form = None THEN None
                     ELSE Some(OrEmpty(Val(form).action)),
     form_method |-> IF form = None THEN "post"
                     ELSE Lower(IF Val(form).method = None THEN "post"
                                ELSE Val(Val(form).method))]

\* the password field looked for only once the identity field is known
ScanInput_PasswordAfterIdentity(fields, input_field) ==
    LET input_name == Lower(OrEmpty(input_field.name))
        input_type == Lower(OrEmpty(input_field.type))
        input_id   == Lower(OrEmpty(input_field.id))
        f1 == IF /\ Falsy(fields.email_field)
                 /\ \/ input_type = "email"
                    \/ AnyIn(email_patterns, input_name)
                    \/ AnyIn(email_patterns, input_id)
              THEN [fields EXCEPT !.email_field = OrElse(input_field.name, input_field.id)]
              ELSE fields
    IN  IF /\ ~Falsy(fields.email_field)
           /\ Falsy(f1.password_field) /\ input_type = "password"
        THEN [f1 EXCEPT !.password_field = OrElse(input_field.name, input_field.id)]
        ELSE f1

\* every candidate recorded, a later one over an earlier one
ScanInput_LastWins(fields, input_field) ==
    LET input_name == Lower(OrEmpty(input_field.name))
        input_type == Lower(OrEmpty(input_field.type))
        input_id   == Lower(OrEmpty(input_field.id))
        f1 == IF \/ input_type = "email"
                 \/ AnyIn(email_patterns, input_name)
                 \/ AnyIn(email_patterns, input_id)
              THEN [fields EXCEPT !.email_field = OrElse(input_field.name, input_field.id)]
              ELSE fields
    IN  IF Falsy(f1.password_field) /\ input_type = "password"
        THEN [f1 EXCEPT !.password_field = OrElse(input_field.name, input_field.id)]
        ELSE f1

\* attempt_login.py 78-91: one element of find_all(['input', 'textarea'])

ScanInput(fields, input_field) ==
    LET input_name == Lower(OrEmpty(input_field.name))
        input_type == Lower(OrEmpty(input_field.type))
        input_id   == Lower(OrEmpty(input_field.id))
        f1 == IF /\ Falsy(fields.email_field)
                 /\ \/ input_type = "email"
                    \/ AnyIn(email_patterns, input_name)
                    \/ AnyIn(email_patterns, input_id)
              THEN [fields EXCEPT !.email_field = OrElse(input_field.name, input_field.id)]
              ELSE fields
    IN  IF Falsy(f1.password_field) /\ input_type = "password"
        THEN [f1 EXCEPT !.password_field = OrElse(input_field.name, input_field.id)]
        ELSE f1

RECURSIVE ScanFrom(_, _, _)
ScanFrom(doc, i, fields) ==
    IF i > Len(doc) THEN fields
    ELSE IF doc[i].tag \in {"input", "textarea"}
         THEN ScanFrom(doc, i + 1, ScanInput(fields, doc[i]))
         ELSE ScanFrom(doc, i + 1, fields)

detect_form_fields(doc) == ScanFrom(doc, 1, FormFieldsInit(doc))

(***************************************************************************)
(* The response classification of the two loops.  A response is its status *)
(* code, its body text and its Location header (<<>> when absent).         *)
(***************************************************************************)
Resp(status_code, text, location) ==
    [status_code |-> status_code, text |-> text, location |-> location]

Verdict(kind, msg) == [kind |-> kind, error_message |-> msg]

blocking_indicators ==
    <<"captcha", "too many attempts", "account locked",
      "temporarily blocked", "suspicious activity", "rate limit">>

\* 301 left out of the success statuses
success_indicators_No301(response) ==
    LET response_text == Lower(response.text)
        location == OrEmpty(response.location)
    IN  \/ response.status_code \in {200, 302}
        \/ Contains(response_text, "dashboard")
        \/ Contains(response_text, "welcome")
        \/ Contains(response_text, "logout")
        \/ EndsWith(location, "/dashboard")
        \/ EndsWith(location, "/home")

\* the status code not taken as a success sign
success_indicators_NoStatus(response) ==
    LET response_text == Lower(response.text)
        location == OrEmpty(response.location)
    IN  \/ Contains(response_text, "dashboard")
        \/ Contains(response_text, "welcome")
        \/ Contains(response_text, "logout")
        \/ EndsWith(location, "/dashboard")
        \/ EndsWith(location, "/home")

\* attempt_login.py 263-270
success_indicators(response) ==
    LET response_text == Lower(response.text)
        location == OrEmpty(response.location)
    IN  \/ response.status_code \in {200, 302, 301}
        \/ Contains(response_text, "dashboard")
        \/ Contains(response_text, "welcome")
        \/ Contains(response_text, "logout")
        \/ EndsWith(location, "/dashboard")
        \/ EndsWith(location, "/home")

\* the success check placed before the status check
ClassifyCredential_SuccessFirst(response) ==
    IF ~AnyIn(blocking_indicators, Lower(response.text)) /\ success_indicators(response)
    THEN Verdict("Succeeded", None)
    ELSE IF response.status_code \in {429, 403}
    THEN Verdict("Blocked",
                 Some("Rate limited/blocked (Status "
                      \o IntToStr(response.status_code) \o ")"))
    ELSE IF AnyIn(blocking_indicators, Lower(response.text))
    THEN Verdict("Blocked", Some("Detected blocking message in response"))
    ELSE Verdict("Continue", None)

\* the blocking words searched in the body as received, not lowercased
ClassifyCredential_NoCaseFold(response) ==
    IF response.status_code \in {429, 403}
    THEN Verdict("Blocked",
                 Some("Rate limited/blocked (Status "
                      \o IntToStr(response.status_code) \o ")"))
    ELSE IF AnyIn(blocking_indicators, response.text)
    THEN Verdict("Blocked", Some("Detected blocking message in response"))
    ELSE IF success_indicators(response)
    THEN Verdict("Succeeded", None)
    ELSE Verdict("Continue", None)

\* attempt_login.py 234-282
ClassifyCredential(response) ==
    IF response.status_code \in {429, 403}
    THEN Verdict("Blocked",
                 Some("Rate limited/blocked (Status "
                      \o IntToStr(response.status_code) \o ")"))
    ELSE IF AnyIn(blocking_indicators, Lower(response.text))
    THEN Verdict("Blocked", Some("Detected blocking message in response"))
    ELSE IF success_indicators(response)
    THEN Verdict("Succeeded", None)
    ELSE Verdict("Continue", None)

\* 503 taken for an ordinary error status
ClassifyGeneric_No503(response) ==
    IF response.status_code \in {429, 403}
    THEN Verdict("Blocked",
                 Some("Blocked with status code " \o IntToStr(response.status_code)))
    ELSE IF response.status_code >= 400
    THEN Verdict("Blocked",
                 Some("Error status code " \o IntToStr(response.status_code)))
    ELSE Verdict("Continue", None)

\* ddos.py 94-112
ClassifyGeneric(response) ==
    IF response.status_code \in {429, 403, 503}
    THEN Verdict("Blocked",
                 Some("Blocked with status code " \o IntToStr(response.status_code)))
    ELSE IF response.status_code >= 400
    THEN Verdict("Blocked",
                 Some("Error status code " \o IntToStr(response.status_code)))
    ELSE Verdict("Continue", None)

(***************************************************************************)
(* The inputs and the environment the runs are explored with.              *)
(***************************************************************************)
url == "https://t.example/app/login"

EmailLists == {<<>>, <<"a@x.com">>, <<"a@x.com", "b@x.com">>}
KeywordLists == {<<>>, <<"pw">>}
RandSamples == {42}
CapChoices == {None} \cup {Some(n) : n \in 0..MaxCap}
\* seconds between two exchanges; the callers pass any float
Periods == {-1, 1}

LoginForm(action, method) ==
    << Elem("form", None, None, None, action, method),
       Elem("input", Some("e"), Some("email"), None, None, None),
       Elem("input", Some("p"), Some("password"), None, None, None) >>

\* the login pages a target serves: status and document
Pages ==
    { Resp(200, LoginForm(None, None), None),
      Resp(200, LoginForm(Some("/auth"), Some("GET")), None),
      Resp(200, << Elem("form", None, None, None, Some(""), Some("post")),
                   Elem("input", Some("user"), Some("text"), None, None, None) >>, None),
      \* the password input is the first one whose name has an identity token
      Resp(200, << Elem("form", None, None, None, None, None),
                   Elem("input", Some("nick"), Some("text"), None, None, None),
                   Elem("input", Some("user_pass"), Some("password"), None, None, None) >>,
           None),
      Resp(404, <<>>, None) }

\* the ordinary answer to a wrong password
PlainResponse == Resp(401, "Invalid", None)

Statuses == {200, 201, 301, 302, 303, 401, 403, 404, 429, 500, 503}
Bodies ==
    {"", "Invalid", "please retry", "Welcome to your dashboard",
     "WELCOME", "Logout", "Please solve the CAPTCHA", "Too many attempts",
     "rate limit exceeded"}
Locations ==
    {None, Some("/dashboard"), Some("https://t.example/home"),
     Some("/login?error=1"), Some("/Dashboard")}

AllResponses ==
    {Resp(st, b, l) : st \in Statuses, b \in Bodies, l \in Locations}

SampledResponses ==
    { PlainResponse,
      Resp(404, "WELCOME", None),
      Resp(200, "a CAPTCHA", None),
      Resp(429, "Welcome", Some("/dashboard")),
      Resp(503, "", None) }

TransportFailures == {"ConnectionError", "Timeout", "RequestException"}
\* what an exchange got: the status of its response, or the class of the
\* exception the request raised
Answer(status_code) == [status |-> Some(status_code), failure |-> None]
Failure(kind) == [status |-> None, failure |-> Some(kind)]
\* str(e) of a transport exception
ExcText(kind) == kind \o " raised"

(***************************************************************************)
(* State.                                                                  *)
(***************************************************************************)
VARIABLES
    entry,               \* which entry point runs: "generic" or "credential"
    pc,                  \* position of the run
    emails, keywords, max_attempts,   \* the caller's arguments
    period,              \* the caller's period (generic run) or delay (credential run)
    rnd,                 \* what random.randint returns in the generator
    server,              \* the responses the target may give: "sampled" or "any"
    fields, passwords, post_url, idx, \* locals of the credential run
    attempts, successful, working_credentials,
    total_attempts, success_count,    \* locals of the generic run
    blocked, final_status, error_message, response,
    result,              \* the returned dictionary, <<>> until the return
    sent,                \* history: the requests issued inside the loop
    verdicts,            \* history: the classification of every exchange so far
    answered,            \* history: how many exchanges got an HTTP response
    replies,             \* history: what every exchange got, a status or a failure
    outcome,             \* history: how the loop was left
    odd,                 \* environment: responses other than PlainResponse given
    max_per_keyword,     \* the generator's second argument
    html_content,        \* the document handed to the form inspector
    page_url,            \* the url of the page that document came from
    Records,             \* the bodies of the records of the SQS event
    done,                \* how many records the handler's loop has processed
    successful_operations, failed_operations,   \* the handler's two lists
    network,             \* history: the requests the handler made
    exit_code,           \* the status the command line of attempt_login.py left with
    running, choice,     \* the menu's self.running and the option it is serving
    log,                 \* history: what the menu asked, was told and started
    runs,                \* the locals of the probe runs of one process
    draws                \* how many values the process's random generator gave

\* what a probe run never changes: the arguments and the state of the
\* functions and handlers that are entered on their own
queueVars == << Records, done, successful_operations, failed_operations, network >>
otherVars == << max_per_keyword, html_content, page_url, queueVars,
               exit_code, running, choice, log, runs, draws >>

vars == << entry, pc, emails, keywords, max_attempts, period, rnd, server,
           fields, passwords, post_url, idx,
           attempts, successful, working_credentials,
           total_attempts, success_count,
           blocked, final_status, error_message, response,
           result, sent, verdicts, answered, replies, outcome, odd,
           otherVars >>

inputVars == << entry, emails, keywords, max_attempts, period, rnd, server >>
credLocals == << fields, passwords, post_url, idx,
                 attempts, successful, working_credentials >>
genericLocals == << total_attempts, success_count >>

Responses == IF server = "any" THEN AllResponses ELSE SampledResponses

(***************************************************************************)
(* The submit URL (attempt_login.py 190-197).                              *)
(***************************************************************************)
\* first position >= from where t occurs in s, 0 when there is none
IndexOf(s, t, from) ==
    LET hits == {i \in from..(Len(s) - Len(t) + 1) : SubSeq(s, i, i + Len(t) - 1) = t}
    IN  IF hits = {} THEN 0 ELSE CHOOSE i \in hits : \A j \in hits : i <= j

\* scheme://netloc of an absolute URL
Origin(u) ==
    LET sep == IndexOf(u, "://", 1)
        slash == IndexOf(u, "/", sep + 3)
    IN  IF slash = 0 THEN u ELSE SubSeq(u, 1, slash - 1)

\* urllib.parse.urljoin(base, ref) for a ref that begins with "/" and has no
\* dot segments
urljoin(base, ref) ==
    IF StartsWith(ref, "//")
    THEN SubSeq(base, 1, IndexOf(base, "://", 1)) \o ref
    ELSE Origin(base) \o ref

PostUrl(u, form_action) ==
    IF Falsy(form_action) THEN u
    ELSE IF StartsWith(Val(form_action), "http") THEN Val(form_action)
    ELSE IF StartsWith(Val(form_action), "/") THEN urljoin(u, Val(form_action))
    ELSE u

(***************************************************************************)
(* Initial state: the locals as initialised at ddos.py 41-45 and           *)
(* attempt_login.py 130-135, for every choice of the arguments.            *)
(***************************************************************************)
\* no SQS event is being handled, no command line and no menu is open and
\* no runs share a process
NoEvent ==
    /\ Records = <<>> /\ done = 0
    /\ successful_operations = <<>> /\ failed_operations = <<>>
    /\ network = <<>>
    /\ exit_code = None /\ running = FALSE /\ choice = None /\ log = <<>>
    /\ runs = <<>> /\ draws = 0

InitLocals ==
    /\ fields = None
    /\ passwords = <<>>
    /\ post_url = None
    /\ idx = 0
    /\ attempts = 0
    /\ successful = FALSE
    /\ working_credentials = <<>>
    /\ total_attempts = 0
    /\ success_count = 0
    /\ blocked = FALSE
    /\ final_status = None
    /\ error_message = None
    /\ response = None
    /\ result = None
    /\ sent = <<>>
    /\ verdicts = <<>>
    /\ answered = 0
    /\ replies = <<>>
    /\ outcome = None
    /\ odd = 0

Init ==
    /\ entry \in {"generic", "credential"}
    /\ pc = IF entry = "generic" THEN "head" ELSE "fetch"
    /\ max_attempts \in CapChoices
    /\ period \in Periods
    /\ server \in {"sampled", "any"}
    /\ IF entry = "generic"
       THEN emails = <<>> /\ keywords = <<>>
       ELSE emails \in EmailLists /\ keywords \in KeywordLists
    /\ rnd \in [1..Len(keywords) -> RandSamples]
    \* a server that may answer anything is explored for runs of one exchange
    /\ server = "any" => /\ max_attempts = Some(1)
                         /\ Len(emails) <= 1
    /\ InitLocals
    \* attempt_login.py 183 calls the generator with its default
    /\ max_per_keyword = DefaultMaxPerKeyword
    \* the page a run inspects is the one its fetch returns, at url
    /\ html_content = <<>> /\ page_url = url
    /\ NoEvent

(* make_requests_until_blocked (ddos.py 11-162).                           *)
(* The run blocks only in the request and in the sleep, so these are the   *)
(* positions of a run: "head" (about to take the next loop iteration),     *)
(* "exchange" (request issued, no answer yet), "sleep" and "returned", or  *)
(* "raised" when an exception left the function.                           *)
(* Leaving the loop and building the returned dictionary is one step.      *)
(***************************************************************************)
\* the cap compared with > instead of >=
CapReached_OffByOne(n) == max_attempts # None /\ n > Val(max_attempts)

\* the cap never looked at
CapReached_Never(n) == FALSE

\* ddos.py 63 and attempt_login.py 202
CapReached(n) == max_attempts # None /\ n >= Val(max_attempts)

\* the counter left as it was
Counted_Forgotten(n) == n

\* ddos.py 68 and attempt_login.py 207
Counted(n) == n + 1

\* a Blocked verdict without its break
PcAfter_NoBreak(kind) == "sleep"

\* a break after a Succeeded verdict as well
PcAfter_BreakOnSuccess(kind) ==
    IF kind \in {"Blocked", "Succeeded"} THEN "returned" ELSE "sleep"

\* the break statements of the classification: a Blocked verdict leaves the loop
PcAfter(kind) == IF kind = "Blocked" THEN "returned" ELSE "sleep"

GenericRequest == [method |-> "GET", url |-> url, data |-> <<>>]

\* time.sleep(secs) raises ValueError for a negative secs
SleepRaises(secs) == secs < 0

\* the failed last exchange left out of total_attempts
GenericReturn_CountsOnlySuccesses ==
    /\ pc' = "returned"
    /\ result' = Some([success_count |-> success_count',
                       total_attempts |-> success_count',
                       blocked |-> blocked',
                       status_code |-> final_status',
                       error_message |-> error_message'])

\* ddos.py 142-148, from the values the step leaves in the locals
GenericReturn ==
    /\ pc' = "returned"
    /\ result' = Some([success_count |-> success_count',
                       total_attempts |-> total_attempts',
                       blocked |-> blocked',
                       status_code |-> final_status',
                       error_message |-> error_message'])

\* ddos.py 61-92: the loop head up to the call of requests.get
GenericHead ==
    /\ entry = "generic" /\ pc = "head"
    /\ UNCHANGED << inputVars, otherVars, credLocals, success_count, blocked, final_status,
                    error_message, response, verdicts, answered, replies, odd >>
    /\ IF CapReached(total_attempts)
       THEN /\ outcome' = Some("Exhausted")
            /\ UNCHANGED << total_attempts, sent >>
            /\ GenericReturn
       ELSE /\ total_attempts < MaxRun
            /\ total_attempts' = Counted(total_attempts)
            /\ sent' = Append(sent, GenericRequest)
            /\ pc' = "exchange"
            /\ UNCHANGED << outcome, result >>

\* a blocking status counted as a success as well
GenericResponse_CountsBlocked ==
    /\ entry = "generic" /\ pc = "exchange"
    /\ UNCHANGED << inputVars, otherVars, credLocals, total_attempts, sent, odd >>
    /\ \E r \in Responses :
         LET v == ClassifyGeneric(r) IN
         /\ response' = r
         /\ final_status' = Some(r.status_code)
         /\ verdicts' = Append(verdicts, v.kind)
         /\ answered' = answered + 1
         /\ replies' = Append(replies, Answer(r.status_code))
         /\ success_count' = success_count + 1
         /\ IF v.kind = "Blocked"
            THEN /\ blocked' = TRUE
                 /\ error_message' = v.error_message
                 /\ outcome' = Some("Blocked")
            ELSE UNCHANGED << blocked, error_message, outcome >>
         /\ IF PcAfter(v.kind) = "returned"
            THEN GenericReturn
            ELSE pc' = PcAfter(v.kind) /\ UNCHANGED result

\* ddos.py 88-112: requests.get returns a response
GenericResponse ==
    /\ entry = "generic" /\ pc = "exchange"
    /\ UNCHANGED << inputVars, otherVars, credLocals, total_attempts, sent, odd >>
    /\ \E r \in Responses :
         LET v == ClassifyGeneric(r) IN
         /\ response' = r
         /\ final_status' = Some(r.status_code)
         /\ verdicts' = Append(verdicts, v.kind)
         /\ answered' = answered + 1
         /\ replies' = Append(replies, Answer(r.status_code))
         /\ IF v.kind = "Blocked"
            THEN /\ blocked' = TRUE
                 /\ error_message' = v.error_message
                 /\ outcome' = Some("Blocked")
                 /\ UNCHANGED success_count
            ELSE /\ success_count' = success_count + 1
                 /\ UNCHANGED << blocked, error_message, outcome >>
         /\ IF PcAfter(v.kind) = "returned"
            THEN GenericReturn
            ELSE pc' = PcAfter(v.kind) /\ UNCHANGED result

\* ddos.py 114-131
GenericFailureMessage(kind) ==
    CASE kind = "ConnectionError" -> "Connection error: " \o ExcText(kind)
      [] kind = "Timeout" -> "Request timeout"
      [] OTHER -> "Request exception: " \o ExcText(kind)

\* ddos.py 114-131: requests.get raises a requests exception
GenericTransportFailure ==
    /\ entry = "generic" /\ pc = "exchange"
    /\ UNCHANGED << inputVars, otherVars, credLocals, genericLocals, final_status, response,
                    sent, odd >>
    /\ \E kind \in TransportFailures :
         /\ blocked' = TRUE
         /\ error_message' = Some(GenericFailureMessage(kind))
         /\ replies' = Append(replies, Failure(kind))
    /\ verdicts' = Append(verdicts, "Blocked")
    /\ UNCHANGED answered
    /\ outcome' = Some("Blocked")
    /\ GenericReturn

\* ddos.py 134
GenericSleep ==
    /\ entry = "generic" /\ pc = "sleep"
    /\ ~SleepRaises(period)
    /\ pc' = "head"
    /\ UNCHANGED << inputVars, otherVars, credLocals, genericLocals, blocked, final_status,
                    error_message, response, result, sent, verdicts, answered, replies, outcome, odd >>

\* ddos.py 134-139: time.sleep raises ValueError; the loop is wrapped in
\* "except KeyboardInterrupt" alone, so the exception leaves the function and
\* no result is built
GenericSleepRaises ==
    /\ entry = "generic" /\ pc = "sleep"
    /\ SleepRaises(period)
    /\ pc' = "raised"
    /\ outcome' = Some("Raised")
    /\ UNCHANGED << inputVars, otherVars, credLocals, genericLocals, blocked, final_status,
                    error_message, response, result, sent, verdicts, answered,
                    replies, odd >>

\* ddos.py 136-139: KeyboardInterrupt while the run blocks in the request or
\* in the sleep
GenericInterrupt ==
    /\ entry = "generic" /\ pc \in {"exchange", "sleep"}
    /\ pc = "sleep" => ~SleepRaises(period)
    /\ UNCHANGED << inputVars, otherVars, credLocals, genericLocals, blocked, final_status,
                    response, sent, verdicts, answered, replies, odd >>
    /\ error_message' = Some("Interrupted by user")
    /\ outcome' = Some("Cancelled")
    /\ GenericReturn

(***************************************************************************)
(* attempt_credential_combinations (attempt_login.py 96-344).  Positions   *)
(* as above, with "fetch" (the GET of the login page issued) before them.  *)
(***************************************************************************)
\* the last pair of the product never reached
ProductLen_LastPairSkipped ==
    IF Len(emails) * Len(passwords) = 0 THEN 0 ELSE Len(emails) * Len(passwords) - 1

\* itertools.product(emails, passwords): its length
ProductLen == Len(emails) * Len(passwords)

\* the first pair of the product at every position
ProductAt_Stuck(i) ==
    [email |-> emails[1], password |-> passwords[1]]

\* the product taken password by password
ProductAt_PasswordMajor(i) ==
    [email |-> emails[((i - 1) % Len(emails)) + 1],
     password |-> passwords[((i - 1) \div Len(emails)) + 1]]

\* itertools.product(emails, passwords): its i-th pair
ProductAt(i) ==
    [email |-> emails[((i - 1) \div Len(passwords)) + 1],
     password |-> passwords[((i - 1) % Len(passwords)) + 1]]

\* attempt_login.py 210-232: the POST of one pair; data are the items of the
\* login_data literal as written, login_data is the dict they make (of two
\* items with the same key the second stays)
LoginRequest(pair) ==
    [method |-> "POST", url |-> Val(post_url),
     data |-> << Val(Val(fields).email_field), pair.email,
                 Val(Val(fields).password_field), pair.password >>,
     login_data |-> [n \in {Val(Val(fields).email_field),
                            Val(Val(fields).password_field)} |->
                        IF n = Val(Val(fields).password_field)
                        THEN pair.password ELSE pair.email]]

\* the pair recorded after every exchange that was not blocked
WorkingAfter_AlsoOnContinue(wc, kind, pair) ==
    IF kind # "Blocked" THEN Append(wc, pair) ELSE wc

\* the pair of a Succeeded exchange not recorded
WorkingAfter_Dropped(wc, kind, pair) == wc

\* the list reset when a block is detected
WorkingAfter_ClearedOnBlock(wc, kind, pair) ==
    IF kind = "Succeeded" THEN Append(wc, pair)
    ELSE IF kind = "Blocked" THEN <<>> ELSE wc

\* attempt_login.py 272-278: what a verdict does to working_credentials
WorkingAfter(wc, kind, pair) ==
    IF kind = "Succeeded" THEN Append(wc, pair) ELSE wc

\* an abort on the identity field alone
Undetectable_EmailOnly(f) == Falsy(f.email_field)

\* attempt_login.py 161: not fields['email_field'] or not fields['password_field']
Undetectable(f) == Falsy(f.email_field) \/ Falsy(f.password_field)

\* attempt_login.py 319-326, from the values the step leaves in the locals
CredReturn ==
    /\ pc' = "returned"
    /\ result' = Some([attempts |-> attempts',
                       blocked |-> blocked',
                       status_code |-> final_status',
                       error_message |-> error_message',
                       successful |-> successful',
                       working_credentials |-> working_credentials'])

\* attempt_login.py 158-198: the page fetch answers; the form is inspected,
\* the passwords are generated and the submit URL is fixed
CredFetch ==
    /\ entry = "credential" /\ pc = "fetch"
    /\ UNCHANGED << inputVars, otherVars, idx, attempts, successful, working_credentials,
                    genericLocals, blocked, final_status, sent, verdicts, answered, replies, odd >>
    /\ \E page \in Pages :
         LET f == detect_form_fields(page.text) IN
         /\ response' = page
         /\ IF Undetectable(f)
            THEN /\ error_message' = Some("Could not detect email/password fields in the form")
                 /\ result' = Some([attempts |-> 0,
                                    blocked |-> FALSE,
                                    status_code |-> Some(page.status_code),
                                    error_message |-> error_message',
                                    successful |-> FALSE,
                                    working_credentials |-> <<>>])
                 /\ outcome' = Some("Undetectable")
                 /\ pc' = "returned"
                 /\ UNCHANGED << fields, passwords, post_url >>
            ELSE /\ fields' = Some(f)
                 /\ passwords' = generate_password_combinations(
                                     keywords, DefaultMaxPerKeyword, rnd)
                 /\ post_url' = Some(PostUrl(url, f.form_action))
                 /\ pc' = "head"
                 /\ UNCHANGED << error_message, result, outcome >>

\* attempt_login.py 313-316: the page fetch raises
CredFetchFails ==
    /\ entry = "credential" /\ pc = "fetch"
    /\ UNCHANGED << inputVars, otherVars, credLocals, genericLocals, blocked, final_status,
                    response, sent, verdicts, answered, replies, odd >>
    /\ \E kind \in TransportFailures :
         error_message' = Some("Unexpected error: " \o ExcText(kind))
    /\ outcome' = Some("Error")
    /\ CredReturn

\* attempt_login.py 200-232: the next pair of the product, the cap check and
\* the call of session.post
CredHead ==
    /\ entry = "credential" /\ pc = "head"
    /\ UNCHANGED << inputVars, otherVars, fields, passwords, post_url, successful,
                    working_credentials, genericLocals, blocked, final_status,
                    error_message, response, verdicts, answered, replies, odd >>
    /\ IF idx >= ProductLen
       THEN /\ outcome' = Some("Exhausted")
            /\ UNCHANGED << idx, attempts, sent >>
            /\ CredReturn
       ELSE /\ idx' = idx + 1
            /\ IF CapReached(attempts)
               THEN /\ outcome' = Some("Exhausted")
                    /\ UNCHANGED << attempts, sent >>
                    /\ CredReturn
               ELSE /\ attempts' = Counted(attempts)
                    /\ sent' = Append(sent, LoginRequest(ProductAt(idx')))
                    /\ pc' = "exchange"
                    /\ UNCHANGED << outcome, result >>

\* attempt_login.py 226-282: session.post returns a response
CredResponse ==
    /\ entry = "credential" /\ pc = "exchange"
    /\ UNCHANGED << inputVars, otherVars, fields, passwords, post_url, idx, attempts,
                    genericLocals, sent >>
    /\ \E r \in Responses :
         LET v == ClassifyCredential(r) IN
         /\ r # PlainResponse => odd < MaxOdd
         /\ odd' = IF r = PlainResponse THEN odd ELSE odd + 1
         /\ response' = r
         /\ final_status' = Some(r.status_code)
         /\ verdicts' = Append(verdicts, v.kind)
         /\ answered' = answered + 1
         /\ replies' = Append(replies, Answer(r.status_code))
         /\ working_credentials' = WorkingAfter(working_credentials, v.kind, ProductAt(idx))
         /\ successful' = (successful \/ v.kind = "Succeeded")
         /\ IF v.kind = "Blocked"
            THEN /\ blocked' = TRUE
                 /\ error_message' = v.error_message
                 /\ outcome' = Some("Blocked")
            ELSE UNCHANGED << blocked, error_message, outcome >>
         /\ IF PcAfter(v.kind) = "returned"
            THEN CredReturn
            ELSE pc' = PcAfter(v.kind) /\ UNCHANGED result

\* one message for every class of failure
CredFailureMessage_Unnamed(kind) == "Request failed"

\* attempt_login.py 284-303
CredFailureMessage(kind) ==
    CASE kind = "ConnectionError" -> "Connection refused - likely blocked at network level"
      [] kind = "Timeout" -> "Request timeout - possible blocking"
      [] OTHER -> "Request exception: " \o ExcText(kind)

\* the status of the earlier exchanges forgotten when the request fails
CredTransportFailure_ForgetsStatus ==
    /\ entry = "credential" /\ pc = "exchange"
    /\ UNCHANGED << inputVars, otherVars, credLocals, genericLocals, response,
                    sent, odd >>
    /\ final_status' = None
    /\ \E kind \in TransportFailures :
         /\ blocked' = TRUE
         /\ error_message' = Some(CredFailureMessage(kind))
         /\ replies' = Append(replies, Failure(kind))
    /\ verdicts' = Append(verdicts, "Blocked")
    /\ UNCHANGED answered
    /\ outcome' = Some("Blocked")
    /\ CredReturn

\* attempt_login.py 284-303: session.post raises a requests exception
CredTransportFailure ==
    /\ entry = "credential" /\ pc = "exchange"
    /\ UNCHANGED << inputVars, otherVars, credLocals, genericLocals, final_status, response,
                    sent, odd >>
    /\ \E kind \in TransportFailures :
         /\ blocked' = TRUE
         /\ error_message' = Some(CredFailureMessage(kind))
         /\ replies' = Append(replies, Failure(kind))
    /\ verdicts' = Append(verdicts, "Blocked")
    /\ UNCHANGED answered
    /\ outcome' = Some("Blocked")
    /\ CredReturn

\* attempt_login.py 306
CredSleep ==
    /\ entry = "credential" /\ pc = "sleep"
    /\ ~SleepRaises(period)
    /\ pc' = "head"
    /\ UNCHANGED << inputVars, otherVars, credLocals, genericLocals, blocked, final_status,
                    error_message, response, result, sent, verdicts, answered, replies, outcome, odd >>

\* attempt_login.py 306-316: time.sleep raises ValueError, which
\* "except Exception" turns into the error message of the result
CredSleepFails ==
    /\ entry = "credential" /\ pc = "sleep"
    /\ SleepRaises(period)
    /\ error_message' = Some("Unexpected error: sleep length must be non-negative")
    /\ outcome' = Some("Error")
    /\ UNCHANGED << inputVars, otherVars, credLocals, genericLocals, blocked, final_status,
                    response, sent, verdicts, answered, replies, odd >>
    /\ CredReturn

\* an interrupt that throws away what the run had found
CredInterrupt_LosesCredentials ==
    /\ entry = "credential" /\ pc \in {"fetch", "exchange", "sleep"}
    /\ pc = "sleep" => ~SleepRaises(period)
    /\ UNCHANGED << inputVars, otherVars, fields, passwords, post_url, idx, attempts,
                    genericLocals, blocked, final_status,
                    response, sent, verdicts, answered, replies, odd >>
    /\ successful' = FALSE
    /\ working_credentials' = <<>>
    /\ error_message' = Some("Interrupted by user")
    /\ outcome' = Some("Cancelled")
    /\ CredReturn

\* attempt_login.py 308-311: KeyboardInterrupt while the run blocks in the
\* page fetch, in the request or in the sleep
CredInterrupt ==
    /\ entry = "credential" /\ pc \in {"fetch", "exchange", "sleep"}
    /\ pc = "sleep" => ~SleepRaises(period)
    /\ UNCHANGED << inputVars, otherVars, credLocals, genericLocals, blocked, final_status,
                    response, sent, verdicts, answered, replies, odd >>
    /\ error_message' = Some("Interrupted by user")
    /\ outcome' = Some("Cancelled")
    /\ CredReturn

Next ==
    \/ GenericHead
    \/ GenericResponse
    \/ GenericTransportFailure
    \/ GenericSleep
    \/ GenericSleepRaises
    \/ GenericInterrupt
    \/ CredFetch
    \/ CredFetchFails
    \/ CredHead
    \/ CredResponse
    \/ CredTransportFailure
    \/ CredSleep
    \/ CredSleepFails
    \/ CredInterrupt

Spec == Init /\ [][Next]_vars

(***************************************************************************)
(* Termination.  Spec follows a generic run for MaxRun exchanges, which is *)
(* as far as its counters are explored.  Whether the loop of ddos.py 61    *)
(* takes another iteration depends on max_attempts and on the answer, not  *)
(* on how many exchanges went before, so the iterations past that horizon  *)
(* are followed below at position "beyond" with the counters and the       *)
(* histories left as they are at the horizon: there total_attempts =       *)
(* MaxRun reads "MaxRun or more".  Only the answers that let the loop go   *)
(* on are followed past the horizon.                                       *)
(***************************************************************************)
\* ddos.py 61-92 past the horizon: no cap stops the loop, the next request
\* is issued
GenericHeadBeyond ==
    /\ entry = "generic" /\ pc = "head"
    /\ ~CapReached(total_attempts)
    /\ total_attempts = MaxRun
    /\ pc' = "beyond"
    /\ UNCHANGED << inputVars, otherVars, credLocals, genericLocals, blocked, final_status,
                    error_message, response, result, sent, verdicts, answered,
                    replies, outcome, odd >>

\* ddos.py 88-112 past the horizon: an answer that does not stop the loop
GenericResponseBeyond ==
    /\ entry = "generic" /\ pc = "beyond"
    /\ \E r \in Responses :
         /\ ClassifyGeneric(r).kind = "Continue"
         /\ response' = r
         /\ final_status' = Some(r.status_code)
    /\ pc' = "sleep"
    /\ UNCHANGED << inputVars, otherVars, credLocals, genericLocals, blocked,
                    error_message, result, sent, verdicts, answered,
                    replies, outcome, odd >>

FairNext ==
    \/ Next
    \/ GenericHeadBeyond
    \/ GenericResponseBeyond

\* the positions a run can be at
Positions == {"fetch", "head", "exchange", "beyond", "sleep", "returned", "raised"}

\* the run leaves position p: the call it made there returns or raises, or
\* the statement it stands at is executed
Leaves(p) == pc = p /\ pc' \in Positions \ {p}

\* termination does not depend on how many different answers a server has:
\* the runs against the sampled server
FairInit == Init /\ server = "sampled"

FairSpec ==
    /\ FairInit /\ [][FairNext]_vars
    /\ \A p \in Positions \ {"returned", "raised"} : WF_pc(Leaves(p))

(***************************************************************************)
(* generate_password_combinations entered on its own                       *)
(* (attempt_login.py 12-42), for keyword lists and values of               *)
(* max_per_keyword beyond the ones the credential run passes.              *)
(***************************************************************************)
MaxSeeds == 2
Seeds == {"pw", "Pw", "pw#7"}
SeedLists == UNION {[1..n -> Seeds] : n \in 0..MaxSeeds}
\* max_per_keyword is an int; the function checks nothing about it
MaxPerKeywordChoices == {-10, -1, 0, 1, 2, DefaultMaxPerKeyword, DefaultMaxPerKeyword + 1}
\* values of random.randint(1, 99)
GenRandSamples == {7, 42}

GenInit ==
    /\ entry = "generate_password_combinations" /\ pc = "call"
    /\ keywords \in SeedLists
    /\ max_per_keyword \in MaxPerKeywordChoices
    /\ rnd \in [1..Len(keywords) -> GenRandSamples]
    /\ emails = <<>> /\ max_attempts = None /\ period = 1 /\ server = "sampled"
    /\ html_content = <<>> /\ page_url = url
    /\ NoEvent
    /\ InitLocals

\* attempt_login.py 23-42: the function has no raise and no test of its
\* arguments; it returns the deduplicated list
GenerateReturns ==
    /\ entry = "generate_password_combinations" /\ pc = "call"
    /\ passwords' = generate_password_combinations(keywords, max_per_keyword, rnd)
    /\ pc' = "returned"
    /\ UNCHANGED << inputVars, otherVars, fields, post_url, idx, attempts,
                    successful, working_credentials, genericLocals, blocked,
                    final_status, error_message, response, result, sent,
                    verdicts, answered, replies, outcome, odd >>

GenNext == GenerateReturns

GenSpec == GenInit /\ [][GenNext]_vars

(***************************************************************************)
(* detect_form_fields and the choice of the submit URL entered on their    *)
(* own (attempt_login.py 45-93 and 159-197), for documents and page URLs   *)
(* beyond the ones the sampled login pages have.                           *)
(***************************************************************************)
MaxInputs == 2

Input(name, type, id) == Elem("input", name, type, id, None, None)

\* the elements a document is made of, besides its form
PageElems ==
    { Input(Some("e"), Some("email"), None),
      Input(None, Some("email"), None),
      Input(Some("UserName"), Some("text"), None),
      Input(Some("q"), None, Some("login-id")),
      Input(Some("p"), Some("password"), None),
      Input(None, Some("PASSWORD"), Some("pw-id")),
      Input(None, Some("password"), None),
      Input(Some("user_pass"), Some("password"), None),
      Elem("textarea", Some("account_note"), None, None, None, None),
      Elem("button", Some("login"), Some("submit"), None, None, None) }

\* the action attribute of the form; <<>> when the form has none
FormActions ==
    { None, Some(""), Some("/auth"), Some("//cdn.example/auth"),
      Some("https://sso.example/in"), Some("login.php"), Some("httpd/login") }

\* a document: no form, or a form followed by up to MaxInputs elements
Documents ==
    LET tails == UNION {[1..n -> PageElems] : n \in 0..MaxInputs}
        heads == {<<>>} \cup {<<Elem("form", None, None, None, a, Some("POST"))>> :
                                  a \in FormActions}
    IN  {h \o t : h \in heads, t \in tails}

PageUrls == {url, "http://h.example"}

FormInit ==
    /\ entry = "detect_form_fields" /\ pc = "call"
    /\ html_content \in Documents
    /\ page_url \in PageUrls
    /\ emails = <<>> /\ keywords = <<>> /\ rnd = <<>>
    /\ max_attempts = None /\ period = 1 /\ server = "sampled"
    /\ max_per_keyword = DefaultMaxPerKeyword
    /\ NoEvent
    /\ InitLocals

FormUnchanged ==
    UNCHANGED << inputVars, otherVars, passwords, idx, attempts, successful,
                 working_credentials, genericLocals, blocked, final_status,
                 error_message, response, result, sent, verdicts, answered,
                 replies, outcome, odd >>

\* attempt_login.py 159: fields = detect_form_fields(response.text)
InspectReturns ==
    /\ entry = "detect_form_fields" /\ pc = "call"
    /\ fields' = Some(detect_form_fields(html_content))
    /\ pc' = "inspected"
    /\ UNCHANGED post_url
    /\ FormUnchanged

\* attempt_login.py 161-174: a field is missing, the caller gives up
InspectedUndetectable ==
    /\ entry = "detect_form_fields" /\ pc = "inspected"
    /\ Undetectable(Val(fields))
    /\ pc' = "returned"
    /\ UNCHANGED << fields, post_url >>
    /\ FormUnchanged

\* attempt_login.py 190-197: the submit URL is chosen
SubmitUrlChosen ==
    /\ entry = "detect_form_fields" /\ pc = "inspected"
    /\ ~Undetectable(Val(fields))
    /\ post_url' = Some(PostUrl(page_url, Val(fields).form_action))
    /\ pc' = "submit"
    /\ UNCHANGED fields
    /\ FormUnchanged

FormNext ==
    \/ InspectReturns
    \/ InspectedUndetectable
    \/ SubmitUrlChosen

FormSpec == FormInit /\ [][FormNext]_vars

(***************************************************************************)
(* The message utilities of sqs.py.  json.loads is the library's parser;   *)
(* json_loads gives what it returns on the message bodies the handlers are *)
(* explored with: a dict with its url and action entries, the type of any  *)
(* other value, or JSONDecodeError.                                        *)
(***************************************************************************)
Absent == <<>>
JNull == <<"null">>
JStr(s) == <<"str", s>>
IsJStr(v) == Len(v) = 2
\* a JSON value that is neither a string nor null, by the name of its
\* Python type; the values of the bodies below are all truthy
JNonStr(type_name) == <<type_name>>
\* str(e) of the AttributeError raised by v.attr
AttrError(v, attr) ==
    "'" \o (IF v = JNull THEN "NoneType" ELSE v[1])
        \o "' object has no attribute '" \o attr \o "'"

NotJson == [kind |-> "JSONDecodeError", url |-> Absent, action |-> Absent]
JDict(u, a) == [kind |-> "dict", url |-> u, action |-> a]
JOther(type_name) == [kind |-> type_name, url |-> Absent, action |-> Absent]

MessageBodies ==
    { "https://example.com",
      "  https://example.com/path ",
      "",
      "   ",
      "invalid-url",
      "https://localhost",
      "{\"url\": \"https://example.com\"}",
      "{\"url\": \"https://example.com\", \"action\": \"ping\"}",
      "{\"url\": \"https://example.com\", \"action\": \" Clone \"}",
      "{\"url\": \"https://example.com\", \"action\": \"ddos\"}",
      "{\"url\": \"https://example.com\", \"action\": \"attempt_login\"}",
      "{\"url\": \"https://example.com\", \"action\": \"reboot\"}",
      "{\"url\": \"https://example.com\", \"action\": \"\"}",
      "{\"url\": \" https://example.com \"}",
      "{\"url\": \"invalid-url\"}",
      "{\"invalid\": \"format\"}",
      "{\"url\": null}",
      "[]",
      "\"just-a-string\"",
      "null",
      "123",
      "1.5",
      "true",
      "{\"url\": 5}",
      "{\"url\": \"https://example.com\", \"action\": 5}",
      "{\"url\": \"https://example.com\", \"action\": null}",
      "{\"url\": \"https://example.com\", \"action\": \"  \"}" }

json_loads(s) ==
    CASE s = "{\"url\": \"https://example.com\"}" ->
             JDict(JStr("https://example.com"), Absent)
      [] s = "{\"url\": \"https://example.com\", \"action\": \"ping\"}" ->
             JDict(JStr("https://example.com"), JStr("ping"))
      [] s = "{\"url\": \"https://example.com\", \"action\": \" Clone \"}" ->
             JDict(JStr("https://example.com"), JStr(" Clone "))
      [] s = "{\"url\": \"https://example.com\", \"action\": \"ddos\"}" ->
             JDict(JStr("https://example.com"), JStr("ddos"))
      [] s = "{\"url\": \"https://example.com\", \"action\": \"attempt_login\"}" ->
             JDict(JStr("https://example.com"), JStr("attempt_login"))
      [] s = "{\"url\": \"https://example.com\", \"action\": \"reboot\"}" ->
             JDict(JStr("https://example.com"), JStr("reboot"))
      [] s = "{\"url\": \"https://example.com\", \"action\": \"\"}" ->
             JDict(JStr("https://example.com"), JStr(""))
      [] s = "{\"url\": \" https://example.com \"}" ->
             JDict(JStr(" https://example.com "), Absent)
      [] s = "{\"url\": \"invalid-url\"}" ->
             JDict(JStr("invalid-url"), Absent)
      [] s = "{\"invalid\": \"format\"}" ->
             JDict(Absent, Absent)
      [] s = "{\"url\": null}" ->
             JDict(JNull, Absent)
      [] s = "[]" ->
             JOther("list")
      [] s = "\"just-a-string\"" ->
             JOther("str")
      [] s = "null" ->
             JOther("NoneType")
      [] s = "123" ->
             JOther("int")
      [] s = "1.5" ->
             JOther("float")
      [] s = "true" ->
             JOther("bool")
      [] s = "{\"url\": 5}" ->
             JDict(JNonStr("int"), Absent)
      [] s = "{\"url\": \"https://example.com\", \"action\": 5}" ->
             JDict(JStr("https://example.com"), JNonStr("int"))
      [] s = "{\"url\": \"https://example.com\", \"action\": null}" ->
             JDict(JStr("https://example.com"), JNull)
      [] s = "{\"url\": \"https://example.com\", \"action\": \"  \"}" ->
             JDict(JStr("https://example.com"), JStr("  "))
      [] OTHER -> NotJson

Whitespace == {" ", "\t", "\n", "\r"}

\* Python's str.strip()
RECURSIVE LStrip(_)
LStrip(s) ==
    IF Len(s) > 0 /\ CharAt(s, 1) \in Whitespace THEN LStrip(SubSeq(s, 2, Len(s))) ELSE s

RECURSIVE RStrip(_)
RStrip(s) ==
    IF Len(s) > 0 /\ CharAt(s, Len(s)) \in Whitespace
    THEN RStrip(SubSeq(s, 1, Len(s) - 1)) ELSE s

Strip(s) == RStrip(LStrip(s))

\* urlparse(url).netloc of a url that begins with http:// or https://
Netloc(u) ==
    LET start == IndexOf(u, "://", 1) + 3
        ends == {i \in start..Len(u) : CharAt(u, i) \in {"/", "?", "#"}}
        stop == IF ends = {} THEN Len(u) + 1
                ELSE CHOOSE i \in ends : \A j \in ends : i <= j
    IN  SubSeq(u, start, stop - 1)

Validation(valid, error) == [valid |-> valid, error |-> error]

\* sqs.py 120-176
validate_url(u) ==
    IF u = "" THEN Validation(FALSE, "URL is empty")
    ELSE LET s == Strip(u) IN
         IF ~(StartsWith(s, "http://") \/ StartsWith(s, "https://"))
         THEN Validation(FALSE, "URL must start with http:// or https://")
         ELSE IF Netloc(s) = ""
         THEN Validation(FALSE, "URL must have a valid domain")
         ELSE IF ~Contains(Netloc(s), ".")
         THEN Validation(FALSE, "URL must have a valid domain with TLD")
         ELSE Validation(TRUE, "")

valid_actions == <<"ping", "clone", "ddos", "attempt_login">>

\* every action accepted
validate_action_Any(action) ==
    IF action = "" THEN Validation(FALSE, "Action is empty")
    ELSE Validation(TRUE, "")

\* sqs.py 179-211
validate_action(action) ==
    IF action = "" THEN Validation(FALSE, "Action is empty")
    ELSE IF Lower(Strip(action)) \notin SeqToSet(valid_actions)
    THEN Validation(FALSE, "Invalid action '" \o Lower(Strip(action))
                              \o "'. Must be one of: ping, clone, ddos, attempt_login")
    ELSE Validation(TRUE, "")

Instruction(status, u, action, error) ==
    [status |-> status, url |-> u, action |-> action, error |-> error]

\* sqs.py 49-78: the message is a JSON object
ParseObject(body_json) ==
    IF Len(body_json.url) = 1
    THEN \* sqs.py 50, 111-117: the url is no string, .strip() raises
         \* AttributeError
         Instruction(0, None, None,
                     Some("Unexpected error parsing message: "
                             \o AttrError(body_json.url, "strip")))
    ELSE IF Len(body_json.action) = 1
    THEN \* sqs.py 51, 111-117
         Instruction(0, None, None,
                     Some("Unexpected error parsing message: "
                             \o AttrError(body_json.action, "strip")))
    ELSE LET u == Strip(IF body_json.url = Absent THEN "" ELSE body_json.url[2])
             action == Lower(Strip(IF body_json.action = Absent THEN "ping"
                                   ELSE body_json.action[2]))
         IN  IF ~validate_url(u).valid
             THEN Instruction(0, None, None,
                              Some("Invalid URL in JSON: " \o validate_url(u).error))
             ELSE IF ~validate_action(action).valid
             THEN Instruction(0, Some(u), None,
                              Some("Invalid action: " \o validate_action(action).error))
             ELSE Instruction(1, Some(u), Some(action), None)

\* sqs.py 89-109: the message is no JSON, the whole body is the URL
ParsePlain(message_body) ==
    LET u == Strip(message_body) IN
    IF ~validate_url(u).valid
    THEN Instruction(0, None, None,
                     Some("Invalid URL format: " \o validate_url(u).error))
    ELSE Instruction(1, Some(u), Some("ping"), None)

\* sqs.py 13-117; <<>> is the None the function returns when it falls off
\* its end (a JSON null is neither a dict nor one of the types of line 81)
parse_sqs_message(message_body) ==
    IF message_body = "" \/ Strip(message_body) = ""
    THEN Some(Instruction(0, None, None, Some("Empty message body")))
    ELSE LET body_json == json_loads(Strip(message_body)) IN
         IF body_json.kind = "JSONDecodeError"
         THEN Some(ParsePlain(Strip(message_body)))
         ELSE IF body_json.kind = "dict" THEN Some(ParseObject(body_json))
         ELSE IF body_json.kind \in {"list", "str", "int", "float", "bool"}
         THEN Some(Instruction(0, None, None,
                     Some("Invalid JSON format: expected object, got "
                             \o body_json.kind)))
         ELSE None

\* the parser without its try: the TypeError of result["status"] on None
\* reaches the caller (status -1 stands for the raised exception)
instruction_parser_Unguarded(message_body) ==
    LET parsed == parse_sqs_message(message_body) IN
    IF parsed = None
    THEN Instruction(-1, None, None, None)
    ELSE Val(parsed)

\* sqs.py 214-250: result["status"] on None raises TypeError, which the
\* parser turns into a status 0 instruction
instruction_parser(message_body) ==
    LET parsed == parse_sqs_message(message_body) IN
    IF parsed = None
    THEN Instruction(0, None, None,
                     Some("Parser error: 'NoneType' object is not subscriptable"))
    ELSE Val(parsed)

(***************************************************************************)
(* The two queue handlers: lambda_handler of d2/lambda.py (13-84) and of   *)
(* lambda/entrypoint.py (23-124).  A record is its body, its message id is *)
(* its position in the event; one step of the loop handles one record.     *)
(***************************************************************************)
MaxRecords == 3

\* the bodies of the events with more than one record
BatchBodies ==
    { "https://example.com",
      "invalid-url",
      "",
      "{\"url\": \"https://example.com\", \"action\": \" Clone \"}",
      "{\"url\": \"invalid-url\"}" }

Events ==
    {<<b>> : b \in MessageBodies}
       \cup UNION {[1..n -> BatchBodies] : n \in 0..MaxRecords}

\* what ping_url does (ping.py 8-53): it returns the status of the answer,
\* an HTTP error status included, or raises when the host is not reached
PingOutcomes ==
    { [raises |-> FALSE, status_code |-> 200],
      [raises |-> FALSE, status_code |-> 503],
      [raises |-> TRUE, status_code |-> 0] }

PingError(u) == "Failed to connect to " \o u \o ": unreachable"

QueueInit ==
    /\ entry \in {"d2", "entrypoint"} /\ pc = "loop"
    /\ Records \in Events
    /\ done = 0
    /\ successful_operations = <<>> /\ failed_operations = <<>>
    /\ network = <<>>
    /\ emails = <<>> /\ keywords = <<>> /\ rnd = <<>>
    /\ max_attempts = None /\ period = 1 /\ server = "sampled"
    /\ max_per_keyword = DefaultMaxPerKeyword
    /\ html_content = <<>> /\ page_url = url
    /\ exit_code = None /\ running = FALSE /\ choice = None /\ log = <<>>
    /\ runs = <<>> /\ draws = 0
    /\ InitLocals

QueueUnchanged ==
    UNCHANGED << inputVars, max_per_keyword, html_content, page_url, Records,
                 exit_code, running, choice, log, runs, draws,
                 credLocals, genericLocals, blocked, final_status,
                 error_message, response, sent, verdicts, answered, replies,
                 outcome, odd >>

\* an entry of the successful list; status_code is <<>> when no ping was made
Succeeded(message_id, u, action, status_code) ==
    [message_id |-> message_id, url |-> u, action |-> action,
     status_code |-> status_code]

Failed(message_id, u, action, error) ==
    [message_id |-> message_id, url |-> u, action |-> action, error |-> error]

Request(message_id, u) == [message_id |-> message_id, url |-> u]

\* d2/lambda.py 38-43: the url of a record; <<>> is Python's None, a value
\* that is no string is given by its type
D2Url(message_body) ==
    LET body_json == json_loads(message_body) IN
    IF body_json.kind = "dict"
    THEN (IF body_json.url = Absent THEN Some(message_body)
          ELSE IF body_json.url = JNull THEN None
          ELSE IF ~IsJStr(body_json.url) THEN body_json.url
          ELSE Some(body_json.url[2]))
    ELSE Some(Strip(message_body))

\* every url let through
D2Invalid_Never(u) == FALSE

\* d2/lambda.py 48
D2Invalid(u) ==
    \/ u = None
    \/ Val(u) = ""
    \/ ~(StartsWith(Val(u), "http://") \/ StartsWith(Val(u), "https://"))

\* d2/lambda.py 48-49, 63-64: the error a record is rejected with before any
\* request, <<>> when it is not rejected; a truthy url that is no string
\* makes url.startswith raise AttributeError
D2Error(message_body) ==
    LET body_json == json_loads(message_body)
        u == D2Url(message_body)
    IN  IF body_json.kind = "dict" /\ Len(body_json.url) = 1 /\ body_json.url # JNull
        THEN Some(AttrError(body_json.url, "startswith"))
        ELSE IF D2Invalid(u)
        THEN Some("Invalid URL format: " \o (IF u = None THEN "None" ELSE Val(u)))
        ELSE None

\* the loop left at the first record that fails
D2Record_StopsAtFailure ==
    /\ entry = "d2" /\ pc = "loop" /\ done < Len(Records)
    /\ LET message_id == done + 1
           u == D2Url(Records[message_id])
       IN  IF D2Error(Records[message_id]) # None
           THEN /\ failed_operations' = Append(failed_operations,
                       Failed(message_id, u, None,
                              Val(D2Error(Records[message_id]))))
                /\ done' = Len(Records)
                /\ UNCHANGED << successful_operations, network >>
           ELSE /\ network' = Append(network, Request(message_id, Val(u)))
                /\ done' = done + 1
                /\ \E o \in PingOutcomes :
                     IF o.raises
                     THEN /\ failed_operations' = Append(failed_operations,
                                 Failed(message_id, u, None, PingError(Val(u))))
                          /\ UNCHANGED successful_operations
                     ELSE /\ successful_operations' = Append(successful_operations,
                                 Succeeded(message_id, u, None, Some(o.status_code)))
                          /\ UNCHANGED failed_operations
    /\ UNCHANGED << pc, result >>
    /\ QueueUnchanged

\* d2/lambda.py 32-70: one record
D2Record ==
    /\ entry = "d2" /\ pc = "loop" /\ done < Len(Records)
    /\ LET message_id == done + 1
           u == D2Url(Records[message_id])
       IN  IF D2Error(Records[message_id]) # None
           THEN /\ failed_operations' = Append(failed_operations,
                       Failed(message_id, u, None,
                              Val(D2Error(Records[message_id]))))
                /\ UNCHANGED << successful_operations, network >>
           ELSE /\ network' = Append(network, Request(message_id, Val(u)))
                /\ \E o \in PingOutcomes :
                     IF o.raises
                     THEN /\ failed_operations' = Append(failed_operations,
                                 Failed(message_id, u, None, PingError(Val(u))))
                          /\ UNCHANGED successful_operations
                     ELSE /\ successful_operations' = Append(successful_operations,
                                 Succeeded(message_id, u, None, Some(o.status_code)))
                          /\ UNCHANGED failed_operations
    /\ done' = done + 1
    /\ UNCHANGED << pc, result >>
    /\ QueueUnchanged

\* 207 only when nothing succeeded
StatusCode_207WhenAllFailed(failed_count) ==
    IF failed_count = 0 \/ Len(successful_operations) > 0 THEN 200 ELSE 207

\* d2/lambda.py 74, entrypoint.py 111
StatusCode(failed_count) == IF failed_count = 0 THEN 200 ELSE 207

\* d2/lambda.py 73-84, entrypoint.py 106-124: the summary
HandlerReturns ==
    /\ entry \in {"d2", "entrypoint"} /\ pc = "loop" /\ done = Len(Records)
    /\ result' = Some([statusCode |-> StatusCode(Len(failed_operations)),
                       total_processed |-> Len(Records),
                       successful |-> Len(successful_operations),
                       failed |-> Len(failed_operations)])
    /\ pc' = "returned"
    /\ UNCHANGED << done, successful_operations, failed_operations, network >>
    /\ QueueUnchanged

\* entrypoint.py 49-103 with execute_action (127-204): one record
EntryRecord ==
    /\ entry = "entrypoint" /\ pc = "loop" /\ done < Len(Records)
    /\ LET message_id == done + 1
           instruction == instruction_parser(Records[message_id])
       IN  IF instruction.status = 0
           THEN /\ failed_operations' = Append(failed_operations,
                       Failed(message_id, instruction.url, instruction.action,
                              Val(instruction.error)))
                /\ UNCHANGED << successful_operations, network >>
           ELSE IF instruction.action = Some("ping")
           THEN /\ network' = Append(network, Request(message_id, Val(instruction.url)))
                /\ \E o \in PingOutcomes :
                     IF o.raises
                     THEN /\ failed_operations' = Append(failed_operations,
                                 Failed(message_id, instruction.url, instruction.action,
                                        "Error executing ping on " \o Val(instruction.url)
                                           \o ": " \o PingError(Val(instruction.url))))
                          /\ UNCHANGED successful_operations
                     ELSE /\ successful_operations' = Append(successful_operations,
                                 Succeeded(message_id, instruction.url, instruction.action,
                                           Some(o.status_code)))
                          /\ UNCHANGED failed_operations
           ELSE \* clone, ddos, attempt_login: placeholders that succeed
                /\ successful_operations' = Append(successful_operations,
                       Succeeded(message_id, instruction.url, instruction.action, None))
                /\ UNCHANGED << failed_operations, network >>
    /\ done' = done + 1
    /\ UNCHANGED << pc, result >>
    /\ QueueUnchanged

QueueNext ==
    \/ D2Record
    \/ EntryRecord
    \/ HandlerReturns

QueueSpec == QueueInit /\ [][QueueNext]_vars

(***************************************************************************)
(* Properties.                                                             *)
(***************************************************************************)
Counter == IF entry = "generic" THEN total_attempts ELSE attempts
Cap == Val(max_attempts)
PayloadRemains == idx < ProductLen

\* C1: in both loops, once an exchange was classified Blocked, or the run is
\* Exhausted or Cancelled, no further exchange is sent: the exchange of the
\* first Blocked verdict is the last exchange of the run.
C1_NoExchangeAfterTerminal ==
    [][ /\ (outcome # None \/ "Blocked" \in SeqToSet(verdicts)) => sent' = sent
        /\ "Blocked" \in SeqToSet(verdicts') =>
              /\ Last(verdicts') = "Blocked"
              /\ Len(verdicts') = Len(sent')
              /\ \A i \in 1..(Len(verdicts') - 1) : verdicts'[i] # "Blocked"
              /\ pc' = "returned" ]_vars

\* a credential run blocked by its second exchange while payloads remain
C1_Witness ==
    /\ entry = "credential" /\ pc = "returned"
    /\ outcome = Some("Blocked")
    /\ Len(sent) = 2 /\ PayloadRemains /\ max_attempts = None

\* C2: in both loops the attempts counter never decreases and, in every state
\* and in the returned result, equals the number of exchanges sent.
C2_CounterIsExchangesSent ==
    /\ Counter = Len(sent)
    /\ [][ /\ Counter' = Len(sent')
           /\ attempts' >= attempts
           /\ total_attempts' >= total_attempts
           /\ result' # None =>
                IF entry = "generic"
                THEN Val(result').total_attempts = Len(sent')
                ELSE Val(result').attempts = Len(sent') ]_vars

\* a generic run returned after three exchanges
C2_Witness ==
    /\ entry = "generic" /\ pc = "returned"
    /\ Val(result).total_attempts = 3 /\ Len(sent) = 3

\* C3 as stated: Succeeded is terminal, no exchange follows an exchange
\* classified Succeeded.
C3_SucceededIsTerminal ==
    [][ (entry = "credential" /\ "Succeeded" \in SeqToSet(verdicts)) => sent' = sent ]_vars

\* C3 as amended: a credential run sends its next exchange only while no
\* Blocked verdict was seen, the cap is not reached and a payload remains; it
\* returns only on a Blocked verdict, on the cap or the end of the payloads,
\* on cancellation or on a failed or undetectable page fetch; a Succeeded
\* verdict does not end it.
C3_StopsOnlyOnBlockCapOrExhaustion ==
    [][ entry = "credential" =>
        /\ sent' # sent =>
              /\ outcome = None
              /\ "Blocked" \notin SeqToSet(verdicts)
              /\ ~(max_attempts # None /\ attempts >= Cap)
              /\ PayloadRemains
        /\ pc' = "returned" =>
              /\ outcome' \in {Some("Blocked"), Some("Exhausted"), Some("Cancelled"),
                               Some("Error"), Some("Undetectable")}
              /\ outcome' = Some("Blocked") => Last(verdicts') = "Blocked"
              /\ outcome' = Some("Exhausted") =>
                    /\ pc = "head"
                    /\ \/ max_attempts # None /\ attempts >= Cap
                       \/ ~PayloadRemains
              /\ outcome' = Some("Cancelled") => pc \in {"fetch", "exchange", "sleep"}
        /\ (answered' # answered /\ Last(verdicts') = "Succeeded") => pc' = "sleep" ]_vars

\* an exchange in flight after an exchange classified Succeeded
C3_Witness ==
    /\ entry = "credential" /\ pc = "exchange"
    /\ verdicts # <<>> /\ Last(verdicts) = "Succeeded"
    /\ Len(sent) = Len(verdicts) + 1

\* C4: when an exchange of a credential run is classified Succeeded its pair is
\* appended to working_credentials and the loop stays Running: after the delay
\* the next payload is sent if one remains and the cap is not reached.
C4_SuccessAppendsAndContinues ==
    [][ entry = "credential" =>
        /\ (answered' # answered /\ Last(verdicts') = "Succeeded") =>
              /\ Len(working_credentials') = Len(working_credentials) + 1
              /\ SubSeq(working_credentials', 1, Len(working_credentials)) = working_credentials
              /\ Last(working_credentials').email = Last(sent).data[2]
              /\ Last(working_credentials').password = Last(sent).data[4]
              /\ pc' = "sleep" /\ result' = None
        /\ (pc = "sleep" /\ pc' # "returned") => pc' = "head"
        /\ (pc = "head" /\ PayloadRemains /\ ~(max_attempts # None /\ attempts >= Cap)) =>
              /\ pc' = "exchange"
              /\ Len(sent') = Len(sent) + 1
              /\ Last(sent').data[2] = emails[(idx \div Len(passwords)) + 1]
              /\ Last(sent').data[4] = passwords[(idx % Len(passwords)) + 1] ]_vars

\* the payload after a recorded success is in flight
C4_Witness ==
    /\ entry = "credential" /\ pc = "exchange"
    /\ Len(working_credentials) = 1 /\ Len(sent) = 2
    /\ working_credentials[1].password = sent[1].data[4]
    /\ sent[2].data[4] # sent[1].data[4]

\* C5: blocked = true and a non-empty working_credentials are not mutually
\* exclusive: every run with a Succeeded exchange and a later Blocked exchange
\* returns both.
C5_BlockedAfterSuccessKeepsCredentials ==
    (/\ entry = "credential" /\ pc = "returned"
     /\ \E i, j \in 1..Len(verdicts) :
           i < j /\ verdicts[i] = "Succeeded" /\ verdicts[j] = "Blocked")
    => /\ Val(result).blocked = TRUE
       /\ Val(result).working_credentials # <<>>
       /\ Val(result).successful = TRUE

\* a result with blocked = true and a working credential
C5_Witness ==
    /\ entry = "credential" /\ pc = "returned"
    /\ Val(result).blocked = TRUE
    /\ Len(Val(result).working_credentials) >= 1
    /\ answered = Len(sent) /\ answered >= 2

\* C6: with max_attempts = n neither loop sends more than n exchanges:
\* attempts <= n in every state, the cap being checked before each send.
C6_NeverMoreThanCap ==
    max_attempts # None =>
        /\ attempts <= Cap
        /\ total_attempts <= Cap
        /\ Len(sent) <= Cap

\* a credential run stopped by the cap with payloads left and nothing blocked
C6_Witness ==
    /\ entry = "credential" /\ pc = "returned"
    /\ max_attempts = Some(2) /\ attempts = 2
    /\ outcome = Some("Exhausted") /\ PayloadRemains /\ ~blocked

\* C7: the checks apply in order, first match wins: in credential mode a
\* response with status 429 or 403 is Blocked even when its body or Location
\* carries a success sign, and its pair is not appended.
C7_StatusBlockWinsOverSuccessSigns ==
    [][ (entry = "credential" /\ answered' # answered
         /\ response'.status_code \in {429, 403}) =>
            /\ Last(verdicts') = "Blocked"
            /\ blocked' = TRUE
            /\ working_credentials' = working_credentials
            /\ pc' = "returned"
            /\ Val(result').blocked = TRUE
            /\ Val(result').working_credentials = working_credentials ]_vars

\* a 429 whose body says welcome and whose Location ends with /dashboard
C7_Witness ==
    /\ entry = "credential" /\ pc = "returned"
    /\ answered >= 1 /\ answered = Len(sent)
    /\ response.status_code = 429
    /\ Contains(Lower(response.text), "welcome")
    /\ EndsWith(OrEmpty(response.location), "/dashboard")
    /\ Val(result).blocked = TRUE /\ Val(result).working_credentials = <<>>

\* C8 as stated: in both modes a response whose status is not 429/403 and
\* whose case-folded body contains a blocking word is Blocked and ends the run
\* with blocked = true.
C8_BodyWordBlocksInBothModes ==
    [][ (answered' # answered
         /\ response'.status_code \notin {429, 403}
         /\ \E w \in {"captcha", "too many attempts", "account locked",
                      "temporarily blocked", "suspicious activity", "rate limit"} :
               Contains(Lower(response'.text), w)) =>
            /\ Last(verdicts') = "Blocked"
            /\ blocked' = TRUE
            /\ pc' = "returned" ]_vars

\* C8 as amended: that holds in credential mode; the generic probe does not
\* read the body, and such a response with a status below 400 lets it go on.
C8_BodyWordBlocksInCredentialMode ==
    [][ (answered' # answered
         /\ response'.status_code \notin {429, 403}
         /\ \E w \in {"captcha", "too many attempts", "account locked",
                      "temporarily blocked", "suspicious activity", "rate limit"} :
               Contains(Lower(response'.text), w)) =>
            IF entry = "credential"
            THEN /\ Last(verdicts') = "Blocked"
                 /\ blocked' = TRUE
                 /\ pc' = "returned"
                 /\ Val(result').blocked = TRUE
            ELSE response'.status_code < 400 =>
                     /\ Last(verdicts') = "Continue"
                     /\ blocked' = FALSE
                     /\ pc' = "sleep" ]_vars

\* a credential run blocked by a 200 page whose body says CAPTCHA
C8_Witness ==
    /\ entry = "credential" /\ pc = "returned"
    /\ answered >= 1 /\ answered = Len(sent)
    /\ response.status_code = 200
    /\ Contains(response.text, "CAPTCHA")
    /\ Val(result).blocked = TRUE

\* C9 as stated: a response not blocked by status or body words is Succeeded
\* iff its status is 200/301/302, or its body contains dashboard, welcome or
\* logout, or its Location ends with /dashboard or /home; otherwise Continue
\* and nothing appended.
C9_SucceededIffSignInBody ==
    [][ (entry = "credential" /\ answered' # answered
         /\ response'.status_code \notin {429, 403}
         /\ ~AnyIn(blocking_indicators, Lower(response'.text))) =>
            IF \/ response'.status_code \in {200, 301, 302}
               \/ \E w \in {"dashboard", "welcome", "logout"} : Contains(response'.text, w)
               \/ \E e \in {"/dashboard", "/home"} :
                     response'.location # None /\ EndsWith(Val(response'.location), e)
            THEN /\ Last(verdicts') = "Succeeded"
                 /\ Len(working_credentials') = Len(working_credentials) + 1
            ELSE /\ Last(verdicts') = "Continue"
                 /\ working_credentials' = working_credentials ]_vars

\* C9 as amended: the same with the success words searched in the
\* case-folded body.
C9_SucceededIffSignInFoldedBody ==
    [][ (entry = "credential" /\ answered' # answered
         /\ response'.status_code \notin {429, 403}
         /\ ~AnyIn(blocking_indicators, Lower(response'.text))) =>
            IF \/ response'.status_code \in {200, 301, 302}
               \/ \E w \in {"dashboard", "welcome", "logout"} :
                     Contains(Lower(response'.text), w)
               \/ \E e \in {"/dashboard", "/home"} :
                     response'.location # None /\ EndsWith(Val(response'.location), e)
            THEN /\ Last(verdicts') = "Succeeded"
                 /\ Len(working_credentials') = Len(working_credentials) + 1
            ELSE /\ Last(verdicts') = "Continue"
                 /\ working_credentials' = working_credentials ]_vars

\* a 404 whose body says WELCOME in capitals, recorded as a success
C9_Witness ==
    /\ entry = "credential" /\ pc = "sleep"
    /\ response.status_code = 404 /\ response.text = "WELCOME"
    /\ response.location = None
    /\ Last(verdicts) = "Succeeded" /\ Len(working_credentials) = 1

\* C10 as stated: status 200 with body "please retry" is Continue in whichever
\* mode; status 429 is Blocked; status 200 with body "Welcome to your
\* dashboard" is Succeeded in credential mode.
C10_PleaseRetryIsContinueInBothModes ==
    [][ answered' # answered =>
        /\ response' = Resp(200, "please retry", None) => Last(verdicts') = "Continue"
        /\ response'.status_code = 429 => Last(verdicts') = "Blocked"
        /\ (entry = "credential" /\ response'.status_code = 200
            /\ response'.text = "Welcome to your dashboard") =>
               Last(verdicts') = "Succeeded" ]_vars

\* C10 as amended: status 200 with body "please retry" is Continue in the
\* generic probe and Succeeded in credential mode, where status 200 is itself
\* a success sign; the two other cases as stated.
C10_PleaseRetryIsContinueInGenericMode ==
    [][ answered' # answered =>
        /\ (response'.status_code = 200 /\ response'.text = "please retry") =>
               Last(verdicts') = IF entry = "generic" THEN "Continue" ELSE "Succeeded"
        /\ response'.status_code = 429 => Last(verdicts') = "Blocked"
        /\ (entry = "credential" /\ response'.status_code = 200
            /\ response'.text = "Welcome to your dashboard") =>
               Last(verdicts') = "Succeeded" ]_vars

\* a credential run that recorded a success on 200 "please retry"
C10_Witness ==
    /\ entry = "credential" /\ pc = "sleep"
    /\ response = Resp(200, "please retry", None)
    /\ Last(verdicts) = "Succeeded" /\ successful

\* C11 as stated: in a generic run a response with status 429 or 403 is
\* Blocked with the blocked-status reason, any other status >= 400, 503
\* included, is Blocked with the error-status reason, and every status below
\* 400 is Continue and adds exactly one to success_count.
C11_OnlyTwoBlockStatuses ==
    [][ (entry = "generic" /\ answered' # answered) =>
        LET code == response'.status_code IN
        /\ code \in {429, 403} =>
              /\ Last(verdicts') = "Blocked" /\ blocked' = TRUE /\ pc' = "returned"
              /\ error_message' = Some("Blocked with status code " \o IntToStr(code))
              /\ success_count' = success_count
        /\ (code >= 400 /\ code \notin {429, 403}) =>
              /\ Last(verdicts') = "Blocked" /\ blocked' = TRUE /\ pc' = "returned"
              /\ error_message' = Some("Error status code " \o IntToStr(code))
              /\ success_count' = success_count
        /\ code < 400 =>
              /\ Last(verdicts') = "Continue" /\ blocked' = FALSE /\ pc' = "sleep"
              /\ error_message' = None
              /\ success_count' = success_count + 1 ]_vars

\* C11 as amended: the same with 503 among the statuses that give the
\* blocked-status reason: 429, 403 and 503 are Blocked with "Blocked with
\* status code N", every other status >= 400 is Blocked with "Error status
\* code N", every status below 400 is Continue and adds one to success_count.
C11_ThreeBlockStatuses ==
    [][ (entry = "generic" /\ answered' # answered) =>
        LET code == response'.status_code IN
        /\ code \in {429, 403, 503} =>
              /\ Last(verdicts') = "Blocked" /\ blocked' = TRUE /\ pc' = "returned"
              /\ error_message' = Some("Blocked with status code " \o IntToStr(code))
              /\ Val(result').error_message = error_message'
              /\ success_count' = success_count
        /\ (code >= 400 /\ code \notin {429, 403, 503}) =>
              /\ Last(verdicts') = "Blocked" /\ blocked' = TRUE /\ pc' = "returned"
              /\ error_message' = Some("Error status code " \o IntToStr(code))
              /\ Val(result').error_message = error_message'
              /\ success_count' = success_count
        /\ code < 400 =>
              /\ Last(verdicts') = "Continue" /\ blocked' = FALSE /\ pc' = "sleep"
              /\ error_message' = None
              /\ success_count' = success_count + 1 ]_vars

\* a generic run stopped by a 503 after a response below 400
C11_Witness ==
    /\ entry = "generic" /\ pc = "returned"
    /\ answered = 2 /\ success_count = 1
    /\ final_status = Some(503)
    /\ Val(result).blocked = TRUE
    /\ Val(result).error_message = Some("Blocked with status code 503")

\* C12: in both loops an exchange whose request raises a connection error, a
\* timeout or another request exception is classified Blocked: the run ends in
\* that step with blocked = true and an error_message naming the class of the
\* failure, a result is returned instead of the exception, and the failed
\* exchange is counted in the attempts of the result.
C12_TransportFailureIsBlocked ==
    [][ (Len(replies') # Len(replies) /\ Last(replies').failure # None) =>
        LET kind == Val(Last(replies').failure)
            msg == Val(Val(result').error_message)
        IN
        /\ Last(verdicts') = "Blocked"
        /\ pc' = "returned" /\ result' # None
        /\ Val(result').blocked = TRUE
        /\ kind = "ConnectionError" => Contains(msg, "Connection")
        /\ kind = "Timeout" => Contains(msg, "timeout")
        /\ kind = "RequestException" => Contains(msg, "exception")
        /\ sent' = sent
        /\ Len(replies') = Len(sent)
        /\ IF entry = "generic"
           THEN Val(result').total_attempts = Len(sent)
           ELSE Val(result').attempts = Len(sent) ]_vars

\* a credential run whose third exchange timed out
C12_Witness ==
    /\ entry = "credential" /\ pc = "returned"
    /\ Len(replies) = 3 /\ Last(replies).failure = Some("Timeout")
    /\ Val(result).attempts = 3 /\ Val(result).blocked = TRUE

\* C13: no exchange is retried: a credential run takes every position of
\* identities x passwords at most once, in one pass, whatever the outcome of
\* its exchange; every send is a new position, and no payload is sent twice.
C13_NoPayloadSentTwice ==
    /\ [](entry = "credential" =>
            \A i, j \in 1..Len(sent) : i # j => sent[i].data # sent[j].data)
    /\ [][ entry = "credential" =>
           /\ idx' >= idx
           /\ sent' # sent =>
                 /\ idx' = idx + 1
                 /\ Len(sent') = Len(sent) + 1
                 /\ SubSeq(sent', 1, Len(sent)) = sent
                 /\ \A i \in 1..Len(sent) : sent[i].data # Last(sent').data ]_vars

\* a run that went on after a success and a plain refusal and was stopped by
\* a failed exchange with payloads left
C13_Witness ==
    /\ entry = "credential" /\ pc = "returned"
    /\ Len(sent) >= 3 /\ PayloadRemains
    /\ "Succeeded" \in SeqToSet(verdicts) /\ "Continue" \in SeqToSet(verdicts)
    /\ Last(replies).failure # None

\* C14: when the form inspector finds no identity field or no secret field in
\* the fetched login page, the credential run ends before any login request:
\* nothing was sent, and the result has attempts = 0, blocked = false,
\* successful = false, no working credentials and the error message "Could
\* not detect email/password fields in the form".
C14_UndetectableFormSendsNothing ==
    (/\ entry = "credential" /\ response # None /\ Len(replies) = 0
     /\ LET f == detect_form_fields(response.text) IN
        \/ f.email_field = None \/ f.email_field = Some("")
        \/ f.password_field = None \/ f.password_field = Some(""))
    => /\ pc = "returned" /\ sent = <<>>
       /\ result # None
       /\ Val(result).attempts = 0
       /\ Val(result).blocked = FALSE
       /\ Val(result).successful = FALSE
       /\ Val(result).working_credentials = <<>>
       /\ Val(result).error_message =
             Some("Could not detect email/password fields in the form")

\* a page with an identity field and no password field, identities and
\* keywords given
C14_Witness ==
    /\ entry = "credential" /\ pc = "returned"
    /\ emails # <<>> /\ keywords # <<>>
    /\ response # None /\ Len(replies) = 0 /\ sent = <<>>
    /\ detect_form_fields(response.text).email_field = Some("user")
    /\ detect_form_fields(response.text).password_field = None
    /\ Val(result).attempts = 0

\* C15: for every k >= 0, a generic run whose first k requests were answered
\* with a status below 400 and whose next request was answered 429 has
\* returned total_attempts = k + 1, success_count = k, blocked = true and
\* status_code = 429, when max_attempts is absent or greater than k; and as
\* long as every answer was below 400 the run has not stopped for a block.
C15_BlockedAfterKSuccesses ==
    \A k \in 0..Len(replies) :
        (/\ entry = "generic"
         /\ max_attempts = None \/ Cap > k
         /\ \A i \in 1..k : /\ replies[i].status # None
                            /\ Val(replies[i].status) < 400)
        => /\ (Len(replies) = k /\ pc \in {"returned", "raised"}) =>
                 /\ ~blocked
                 /\ outcome \in {Some("Cancelled"), Some("Raised")}
           /\ (Len(replies) = k + 1 /\ replies[k + 1].status = Some(429)) =>
                 /\ pc = "returned"
                 /\ Val(result).total_attempts = k + 1
                 /\ Val(result).success_count = k
                 /\ Val(result).blocked = TRUE
                 /\ Val(result).status_code = Some(429)

\* the case of three answers below 400 and then a 429
C15_Witness ==
    /\ entry = "generic" /\ pc = "returned" /\ max_attempts = None
    /\ Len(replies) = 4
    /\ \A i \in 1..3 : replies[i].status = Some(200)
    /\ replies[4].status = Some(429)
    /\ Val(result).total_attempts = 4 /\ Val(result).success_count = 3

\* C16: a KeyboardInterrupt during the sleep between two exchanges ends the
\* run Cancelled in that step: a result is returned whose attempts is the
\* number of exchanges completed so far, with blocked, the success counters
\* and working_credentials as they were, and no further exchange is sent.
C16_CancelInSleepKeepsCounts ==
    [][ (pc = "sleep" /\ outcome' = Some("Cancelled")) =>
        /\ pc' = "returned" /\ result' # None
        /\ sent' = sent /\ replies' = replies
        /\ Val(result').error_message = Some("Interrupted by user")
        /\ Val(result').blocked = blocked
        /\ IF entry = "generic"
           THEN /\ Val(result').total_attempts = Len(replies)
                /\ Val(result').total_attempts = total_attempts
                /\ Val(result').success_count = success_count
           ELSE /\ Val(result').attempts = Len(replies)
                /\ Val(result').attempts = attempts
                /\ Val(result').successful = successful
                /\ Val(result').working_credentials = working_credentials ]_vars

\* a credential run cancelled in the sleep after its second exchange, with one
\* working credential found
C16_Witness ==
    /\ entry = "credential" /\ pc = "returned"
    /\ outcome = Some("Cancelled")
    /\ Len(replies) = 2 /\ Len(sent) = 2
    /\ Val(result).attempts = 2
    /\ Len(Val(result).working_credentials) = 1

\* C17: neither entry point lets a failure reach its caller: whatever the
\* responses, transport failures, pages, keywords and interrupts of a run, it
\* ends with a result and never with an exception.
C17_EveryRunEndsWithAResult ==
    /\ pc # "raised"
    /\ outcome # None => (pc = "returned" /\ result # None)

\* C18: a run that comes to the end of its payloads or to max_attempts, no
\* exchange having been classified Blocked, ends there, Exhausted, with
\* blocked = false; and a credential run without a cap that was neither
\* blocked nor cut short returns attempts = |identities| x |generated passwords|.
C18_ExhaustedIsNotBlocked ==
    /\ [](outcome = Some("Exhausted") =>
            /\ pc = "returned"
            /\ "Blocked" \notin SeqToSet(verdicts)
            /\ Val(result).blocked = FALSE
            /\ \/ max_attempts # None /\ Counter = Cap
               \/ entry = "credential" /\ idx >= Len(emails) * Len(passwords))
    /\ []((/\ entry = "credential" /\ pc = "returned" /\ max_attempts = None
           /\ ~blocked
           /\ outcome \notin {Some("Cancelled"), Some("Error"), Some("Undetectable")})
          => /\ outcome = Some("Exhausted")
             /\ Val(result).attempts = Len(emails) * Len(passwords)
             /\ Len(sent) = Len(emails) * Len(passwords))
    /\ [][ (/\ pc = "head"
            /\ \/ max_attempts # None /\ Counter >= Cap
               \/ entry = "credential" /\ idx >= Len(emails) * Len(passwords))
           => /\ pc' = "returned"
              /\ outcome' = Some("Exhausted")
              /\ sent' = sent
              /\ Val(result').blocked = FALSE ]_vars

\* two identities and the nine passwords of one keyword, all eighteen pairs
\* tried and none blocked
C18_Witness ==
    /\ entry = "credential" /\ pc = "returned" /\ max_attempts = None
    /\ Len(emails) = 2 /\ Len(passwords) = 9
    /\ outcome = Some("Exhausted")
    /\ Val(result).attempts = 18 /\ Val(result).blocked = FALSE

\* C20: the credential run sends the pairs of identities x generated
\* passwords identity by identity: every exchange carrying an earlier identity
\* precedes every exchange carrying a later one, and within one identity the
\* passwords go out in the order the generator gave them.
C20_IdentityMajorOrder ==
    entry = "credential" =>
        /\ (pc = "head" /\ idx = 0) =>
              passwords = generate_password_combinations(keywords, DefaultMaxPerKeyword, rnd)
        /\ \A k \in 1..Len(sent) :
              /\ sent[k].data[2] = emails[((k - 1) \div Len(passwords)) + 1]
              /\ sent[k].data[4] = passwords[((k - 1) % Len(passwords)) + 1]
        /\ \A i, j \in 1..Len(sent) :
              i < j =>
                 LET ei == CHOOSE n \in 1..Len(emails) : emails[n] = sent[i].data[2]
                     ej == CHOOSE n \in 1..Len(emails) : emails[n] = sent[j].data[2]
                     pi == CHOOSE n \in 1..Len(passwords) : passwords[n] = sent[i].data[4]
                     pj == CHOOSE n \in 1..Len(passwords) : passwords[n] = sent[j].data[4]
                 IN  ei < ej \/ (ei = ej /\ pi < pj)

\* the last password of the first identity followed by the first password of
\* the second identity
C20_Witness ==
    /\ entry = "credential" /\ Len(sent) >= 10 /\ Len(passwords) = 9
    /\ sent[9].data[2] = "a@x.com" /\ sent[9].data[4] = passwords[9]
    /\ sent[10].data[2] = "b@x.com" /\ sent[10].data[4] = passwords[1]

\* C19 as stated: every run whose exchanges and sleeps complete comes to a
\* terminal state and returns: a credential run always, a generic run for
\* every max_attempts, absent included, even if the server never blocks.
C19_EveryRunReturns ==
    period >= 0 => <>(pc = "returned")

\* C19 as amended: every credential run and every generic run with a
\* max_attempts returns; a generic run without max_attempts never leaves the
\* loop at its head and returns only on a Blocked verdict, a failed exchange
\* or an interrupt.
C19_BoundedRunsReturn ==
    /\ (period >= 0 /\ (entry = "credential" \/ max_attempts # None))
          => <>(pc = "returned")
    /\ [][ (entry = "generic" /\ max_attempts = None) =>
           /\ pc = "head" => pc' \in {"exchange", "beyond"}
           /\ pc' = "returned" =>
                 /\ pc \in {"exchange", "sleep"}
                 /\ outcome' \in {Some("Blocked"), Some("Cancelled")} ]_vars

\* a generic run with max_attempts = 3 that was never blocked and returned
\* after its third exchange
C19_Witness ==
    /\ entry = "generic" /\ pc = "returned" /\ period >= 0
    /\ max_attempts = Some(3) /\ total_attempts = 3 /\ success_count = 3
    /\ outcome = Some("Exhausted")

NoDuplicates(q) == \A i, j \in 1..Len(q) : i # j => q[i] # q[j]

\* the generator has returned
Generated == entry = "generate_password_combinations" /\ pc = "returned"

\* how many variants of one keyword variations[:max_per_keyword] keeps
KeptPerKeyword ==
    LET n == Len(Variations("", 1)) IN
    IF max_per_keyword >= 0
    THEN (IF max_per_keyword < n THEN max_per_keyword ELSE n)
    ELSE (IF n + max_per_keyword > 0 THEN n + max_per_keyword ELSE 0)

ConcatOf(r) ==
    [p \in 1..(Len(keywords) * KeptPerKeyword) |->
        Variations(keywords[((p - 1) \div KeptPerKeyword) + 1],
                   r[((p - 1) \div KeptPerKeyword) + 1])[((p - 1) % KeptPerKeyword) + 1]]

FirstIndex(c, x) ==
    CHOOSE i \in 1..Len(c) : c[i] = x /\ \A j \in 1..(i - 1) : c[j] # x

IsFirstOccurrences(out, c) ==
    /\ SeqToSet(out) = SeqToSet(c)
    /\ NoDuplicates(out)
    /\ \A i, j \in 1..Len(out) :
          i < j => FirstIndex(c, out[i]) < FirstIndex(c, out[j])

\* the strings of c that do not come from a random-suffix slot
FixedOf(c) ==
    {c[p] : p \in {q \in 1..Len(c) :
                     ((FirstIndex(c, c[q]) - 1) % KeptPerKeyword) + 1
                        # Len(Variations("", 1))}}

PosIn(out, x) == CHOOSE i \in 1..Len(out) : out[i] = x

\* C22: the output is exactly the sequence of first occurrences in the
\* concatenation, in seed order, of each seed's variant list truncated to
\* maxPerSeed (maxPerSeed >= 0); and whatever the random suffixes of a second
\* call with the same seeds are, the strings that are no random-suffix
\* variant in either call stand in the same relative order in both outputs.
C22_FirstOccurrencesInSeedOrder ==
    (Generated /\ max_per_keyword >= 0) =>
        /\ IsFirstOccurrences(passwords, ConcatOf(rnd))
        /\ \A r2 \in [1..Len(keywords) -> GenRandSamples] :
              LET out2 == generate_password_combinations(keywords, max_per_keyword, r2)
                  both == FixedOf(ConcatOf(rnd)) \cap FixedOf(ConcatOf(r2))
              IN  /\ both \subseteq SeqToSet(passwords) \cap SeqToSet(out2)
                  /\ \A x, y \in both :
                        PosIn(passwords, x) < PosIn(passwords, y)
                           <=> PosIn(out2, x) < PosIn(out2, y)

\* "Pw" then "pw", all ten variants asked for: the first seed loses its
\* capitalized variant, the second its first four, fifteen strings are left
C22_Witness ==
    /\ Generated
    /\ keywords = <<"Pw", "pw">> /\ max_per_keyword = DefaultMaxPerKeyword
    /\ Len(passwords) = 15
    /\ SubSeq(passwords, 1, 4) = <<"Pw", "pw", "PW", "Pw123">>
    /\ passwords[10] = "pw123"

\* C23: generate fails with InvalidArgument when seeds is empty or
\* maxPerSeed < 1: a call with such input never returns a list.
C23_InvalidInputFails ==
    (entry = "generate_password_combinations"
       /\ (keywords = <<>> \/ max_per_keyword < 1))
      => pc # "returned"

\* the form inspector has returned
Inspected == entry = "detect_form_fields" /\ pc # "call"

IdentityTokens == {"email", "username", "user", "login", "account"}

IsInputLike(el) == el.tag \in {"input", "textarea"}

IsIdentityCandidate(el) ==
    /\ IsInputLike(el)
    /\ \/ Lower(OrEmpty(el.type)) = "email"
       \/ \E t \in IdentityTokens :
             \/ Contains(Lower(OrEmpty(el.name)), t)
             \/ Contains(Lower(OrEmpty(el.id)), t)

\* what is recorded of an element: its name, or its id when it has no name
NameOf(el) == OrElse(el.name, el.id)

FirstIn(S) == CHOOSE i \in S : \A j \in S : i <= j

IdentityCandidates ==
    {i \in 1..Len(html_content) : IsIdentityCandidate(html_content[i])}

\* C24 as stated: the identity field is the first input-like element whose
\* type is email or whose name or id contains one of the tokens; the first
\* match wins whatever its attributes, later candidates are ignored.
C24_FirstCandidateWins ==
    Inspected =>
        Val(fields).email_field =
            IF IdentityCandidates = {} THEN None
            ELSE NameOf(html_content[FirstIn(IdentityCandidates)])

\* C24 as amended: the identity field is the first candidate that has a
\* non-empty name or id; a candidate with neither is passed over and a later
\* candidate is recorded; without such a candidate the field stays empty.
C24_FirstNamedCandidateWins ==
    Inspected =>
        LET named == {i \in IdentityCandidates : ~Falsy(NameOf(html_content[i]))}
        IN  /\ named # {} =>
                 Val(fields).email_field = NameOf(html_content[FirstIn(named)])
            /\ named = {} => Falsy(Val(fields).email_field)
            /\ IdentityCandidates = {} => Val(fields).email_field = None

\* an email input without name and id, then an input named UserName: the
\* second is recorded
C24_Witness ==
    /\ Inspected
    /\ html_content = << Input(None, Some("email"), None),
                         Input(Some("UserName"), Some("text"), None) >>
    /\ Val(fields).email_field = Some("UserName")

ExampleDocument ==
    << Input(Some("e"), Some("email"), None),
       Input(Some("p"), Some("password"), None) >>

\* C25 as stated: the secret field is the first element whose type is
\* exactly password, whatever the identity field is, and None when there is
\* no such element; the document of an email input named e and a password
\* input named p gives identity e and secret p.
C25_FirstPasswordTypeWins ==
    Inspected =>
        LET typed == {i \in 1..Len(html_content) :
                         html_content[i].type = Some("password")}
        IN  /\ Val(fields).password_field =
                  IF typed = {} THEN None
                  ELSE NameOf(html_content[FirstIn(typed)])
            /\ html_content = ExampleDocument =>
                  /\ Val(fields).email_field = Some("e")
                  /\ Val(fields).password_field = Some("p")

\* C25 as amended: the secret field is found whatever the identity field is;
\* the type is compared in lower case, among the input and textarea elements;
\* the secret field is the first such element that has a non-empty name or
\* id, an element with neither is passed over; it is None when no element
\* has the type; the example document gives identity e and secret p.
C25_FirstNamedPasswordTypeWins ==
    Inspected =>
        LET typed == {i \in 1..Len(html_content) :
                         /\ IsInputLike(html_content[i])
                         /\ Lower(OrEmpty(html_content[i].type)) = "password"}
            named == {i \in typed : ~Falsy(NameOf(html_content[i]))}
        IN  /\ named # {} =>
                  Val(fields).password_field = NameOf(html_content[FirstIn(named)])
            /\ named = {} => Falsy(Val(fields).password_field)
            /\ typed = {} => Val(fields).password_field = None
            /\ html_content = ExampleDocument =>
                  /\ Val(fields).email_field = Some("e")
                  /\ Val(fields).password_field = Some("p")

\* the example document inspected
C25_Witness ==
    /\ Inspected
    /\ html_content = ExampleDocument
    /\ Val(fields).email_field = Some("e")
    /\ Val(fields).password_field = Some("p")

IsAbsoluteUrl(a) == StartsWith(a, "http://") \/ StartsWith(a, "https://")

\* RFC 3986 resolution of a relative reference that has no scheme, no
\* leading slash and no dot segments: the last segment of the base path is
\* replaced by the reference
RelativeTo(base, ref) ==
    LET origin == Origin(base)
        path == SubSeq(base, Len(origin) + 1, Len(base))
        slashes == {i \in 1..Len(path) : CharAt(path, i) = "/"}
        dir == IF slashes = {} THEN "/"
               ELSE SubSeq(path, 1, CHOOSE i \in slashes : \A j \in slashes : j <= i)
    IN  origin \o dir \o ref

\* the submit URL the four cases of the claim give
ResolvedSubmitUrl(u, form_action) ==
    IF Falsy(form_action) THEN u
    ELSE IF IsAbsoluteUrl(Val(form_action)) THEN Val(form_action)
    ELSE IF StartsWith(Val(form_action), "/") THEN urljoin(u, Val(form_action))
    ELSE RelativeTo(u, Val(form_action))

\* C26: an absolute action is used verbatim, an action beginning with / is
\* resolved against the page's origin, any other non-empty action is
\* resolved as a relative reference against the page URL, an empty or
\* missing action gives the page URL; the URL is fixed before the first
\* login exchange.
C26_SubmitUrlResolved ==
    (entry = "detect_form_fields" /\ pc = "submit") =>
        /\ post_url # None
        /\ Val(post_url) = ResolvedSubmitUrl(page_url, Val(fields).form_action)

Handling == entry \in {"d2", "entrypoint"}

\* how often record i occurs in a list of the handler
Occurrences(list, i) == Cardinality({k \in 1..Len(list) : list[k].message_id = i})

Ascending(list) ==
    \A j, k \in 1..Len(list) : j < k => list[j].message_id < list[k].message_id

\* C27: the handler processes every record exactly once and in order: after
\* each step the records handled so far are each in exactly one of the two
\* lists, in the order of the event, whatever failed before; the summary
\* has total_processed = number of records and successful + failed =
\* total_processed.
C27_EveryRecordOnceInOrder ==
    Handling =>
        /\ done <= Len(Records)
        /\ Len(successful_operations) + Len(failed_operations) = done
        /\ \A i \in 1..done :
              Occurrences(successful_operations, i)
                 + Occurrences(failed_operations, i) = 1
        /\ Ascending(successful_operations) /\ Ascending(failed_operations)
        /\ pc = "returned" =>
              /\ done = Len(Records)
              /\ Val(result).total_processed = Len(Records)
              /\ Val(result).successful = Len(successful_operations)
              /\ Val(result).failed = Len(failed_operations)
              /\ Val(result).successful + Val(result).failed
                    = Val(result).total_processed

\* an invalid URL first, then a host that answers, then a host that is not
\* reached: the second and third record are handled after the failure
C27_Witness ==
    /\ entry = "d2" /\ pc = "returned"
    /\ Records = <<"invalid-url", "https://example.com", "https://example.com">>
    /\ Len(successful_operations) = 1 /\ successful_operations[1].message_id = 2
    /\ Len(failed_operations) = 2 /\ failed_operations[2].message_id = 3
    /\ Val(result).total_processed = 3


\* C28: the summary's statusCode is 200 exactly when no record of the event
\* failed, an event without records included, and 207 exactly when at least
\* one record failed, whether or not any record succeeded.
C28_StatusCodeTellsFailure ==
    (Handling /\ pc = "returned") =>
        /\ Val(result).statusCode \in {200, 207}
        /\ Val(result).statusCode = 200 <=> failed_operations = <<>>
        /\ Val(result).statusCode = 207 <=> failed_operations # <<>>
        /\ Records = <<>> => Val(result).statusCode = 200

\* one record answered and one rejected: 207 although a record succeeded
C28_Witness ==
    /\ Handling /\ pc = "returned"
    /\ Records = <<"https://example.com", "invalid-url">>
    /\ Len(successful_operations) = 1 /\ Len(failed_operations) = 1
    /\ Val(result).statusCode = 207


\* the URL the entry point reads from a record (sqs.py 42-51, 91): the url
\* entry of a JSON object, trimmed, or the trimmed body; <<>> is None, a
\* value that is no string is given by its type
EntryUrl(message_body) ==
    LET body_json == json_loads(Strip(message_body)) IN
    IF body_json.kind = "dict"
    THEN (IF body_json.url = Absent THEN Some("")
          ELSE IF body_json.url = JNull THEN None
          ELSE IF ~IsJStr(body_json.url) THEN body_json.url
          ELSE Some(Strip(body_json.url[2])))
    ELSE Some(Strip(message_body))

RecordUrl(message_body) ==
    IF entry = "d2" THEN D2Url(message_body) ELSE EntryUrl(message_body)

\* empty, or not starting with http:// or https://
InvalidRecordUrl(u) ==
    \/ u = None
    \/ Val(u) = ""
    \/ ~(StartsWith(Val(u), "http://") \/ StartsWith(Val(u), "https://"))

\* the bodies the entry point rejects before it looks at a URL: a blank
\* body, JSON that is no object, an object whose url or action is no string
RejectedBeforeUrl(message_body) ==
    LET body_json == json_loads(Strip(message_body)) IN
    \/ Strip(message_body) = ""
    \/ body_json.kind \notin {"dict", "JSONDecodeError"}
    \/ body_json.kind = "dict" /\ Len(body_json.url) = 1
    \/ body_json.kind = "dict" /\ Len(body_json.action) = 1

\* the url of the record is a JSON value that is neither a string nor null
UrlIsNoString(message_body) ==
    LET body_json == json_loads(Strip(message_body)) IN
    body_json.kind = "dict" /\ Len(body_json.url) = 1 /\ body_json.url # JNull

ErrorsOf(i) ==
    {failed_operations[k].error :
        k \in {j \in 1..Len(failed_operations) : failed_operations[j].message_id = i}}

Requested(i) == \E k \in 1..Len(network) : network[k].message_id = i

\* a handled record with an invalid URL is in the failed list and nothing
\* was requested for it
RejectedUnrequested(i) ==
    /\ Occurrences(failed_operations, i) = 1
    /\ Occurrences(successful_operations, i) = 0
    /\ ~Requested(i)

FourActions == {"ping", "clone", "ddos", "attempt_login"}

\* what a message asks for, read off its shape: <<url, action>> for a plain
\* string that is a valid URL and for a JSON object with a valid url and one
\* of the four actions (ping when absent, trimmed and in lower case), <<>>
\* for every other message
Asked(message_body) ==
    LET body == Strip(message_body)
        body_json == json_loads(body)
    IN  IF body_json.kind = "JSONDecodeError"
        THEN (IF validate_url(body).valid THEN <<body, "ping">> ELSE <<>>)
        ELSE IF body_json.kind = "dict" /\ IsJStr(body_json.url)
                  /\ body_json.action = Absent
        THEN (IF validate_url(body_json.url[2]).valid
              THEN <<Strip(body_json.url[2]), "ping">> ELSE <<>>)
        ELSE IF body_json.kind = "dict" /\ IsJStr(body_json.url)
                  /\ IsJStr(body_json.action)
        THEN (IF /\ validate_url(body_json.url[2]).valid
                 /\ Lower(Strip(body_json.action[2])) \in FourActions
              THEN <<Strip(body_json.url[2]), Lower(Strip(body_json.action[2]))>>
              ELSE <<>>)
        ELSE <<>>

\* the messages the parser has to turn down: empty bodies, JSON arrays,
\* JSON strings, objects without url, empty and unknown actions
TurnedDown(message_body) ==
    LET body == Strip(message_body)
        body_json == json_loads(body)
    IN  \/ body = ""
        \/ body_json.kind \in {"list", "str"}
        \/ body_json.kind = "dict" /\ body_json.url = Absent
        \/ /\ body_json.kind = "dict" /\ IsJStr(body_json.action)
           /\ Lower(Strip(body_json.action[2])) \notin FourActions

\* C30: instruction_parser returns status 1 exactly for a plain string that
\* is a valid URL and for a JSON object whose url is valid and whose action
\* (ping when absent, compared in lower case after trimming) is one of ping,
\* clone, ddos, attempt_login; it then returns the trimmed url and that
\* action, ping for a plain URL and for an object with only url.  Empty
\* bodies, JSON arrays, JSON strings, objects without url, empty and unknown
\* actions give status 0.  The entry point fails a status 0 record with the
\* parser's error and requests nothing for it.
C30_StatusOneIffValidInstruction ==
    entry = "entrypoint" =>
        \A i \in 1..done :
            LET instruction == instruction_parser(Records[i])
                asked == Asked(Records[i])
            IN  /\ instruction.status \in {0, 1}
                /\ instruction.status = 1 <=> asked # <<>>
                /\ instruction.status = 1 =>
                      /\ instruction.url = Some(asked[1])
                      /\ instruction.action = Some(asked[2])
                      /\ instruction.error = None
                      /\ \/ /\ Occurrences(successful_operations, i) = 1
                            /\ \A k \in 1..Len(successful_operations) :
                                  successful_operations[k].message_id = i =>
                                     successful_operations[k].action = Some(asked[2])
                         \/ asked[2] = "ping" /\ Requested(i)
                /\ TurnedDown(Records[i]) => instruction.status = 0
                /\ instruction.status = 0 =>
                      /\ instruction.error # None
                      /\ ErrorsOf(i) = {Val(instruction.error)}
                      /\ Occurrences(successful_operations, i) = 0
                      /\ ~Requested(i)

\* an object whose action is " Clone " has been accepted as clone and the
\* record is in the successful list
C30_Witness ==
    /\ entry = "entrypoint" /\ done = 1
    /\ Records = <<"{\"url\": \"https://example.com\", \"action\": \" Clone \"}">>
    /\ instruction_parser(Records[1]).status = 1
    /\ Len(successful_operations) = 1
    /\ successful_operations[1].action = Some("clone")
    /\ successful_operations[1].url = Some("https://example.com")


Probing == entry \in {"generic", "credential"}

\* exchanges sent and not yet answered
InFlight == Len(sent) - Len(replies)

\* C31: within one run the steps occur in the order send, classify, decide,
\* sleep, with at most one exchange in flight: a request is sent only from
\* the loop head, its answer is classified and decided on before anything
\* else, exactly one delay lies between two consecutive exchanges, and a
\* delay occurs only between two exchanges: after a delay has elapsed the
\* next step of the run is the next exchange, never the end of the run.
C31_OneDelayOnlyBetweenExchanges ==
    /\ [](Probing => InFlight \in {0, 1})
    /\ [](Probing /\ pc \in {"head", "sleep"} => InFlight = 0)
    /\ [][ Probing =>
           /\ sent' # sent => (pc = "head" /\ pc' = "exchange"
                                  /\ Len(sent') = Len(sent) + 1)
           /\ (pc = "exchange" /\ pc' # pc) => pc' \in {"sleep", "returned"}
           /\ (pc = "exchange" /\ pc' = "sleep") =>
                 (Len(verdicts') = Len(verdicts) + 1 /\ Last(verdicts') # "Blocked")
           /\ (pc = "sleep" /\ pc' # pc) => pc' \in {"head", "returned", "raised"}
           /\ pc' = "head" => pc \in {"sleep", "fetch", "head"}
           \* a delay has elapsed: an exchange follows
           /\ (pc = "head" /\ sent # <<>> /\ pc' # pc) => pc' = "exchange" ]_vars


\* C36: in every state of a credential run, and in its result, successful is
\* true exactly when working_credentials is not empty; working_credentials
\* only grows; every pair in it was sent in an exchange of this run that was
\* classified Succeeded.
C36_SuccessfulIffWorkingCredentials ==
    /\ [](entry = "credential" =>
            /\ successful <=> working_credentials # <<>>
            /\ result # None =>
                  (Val(result).successful <=> Val(result).working_credentials # <<>>)
            /\ \A k \in 1..Len(working_credentials) :
                  \E i \in 1..Len(verdicts) :
                     /\ verdicts[i] = "Succeeded"
                     /\ sent[i].data[2] = working_credentials[k].email
                     /\ sent[i].data[4] = working_credentials[k].password)
    /\ [][ entry = "credential" =>
           /\ Len(working_credentials') >= Len(working_credentials)
           /\ SubSeq(working_credentials', 1, Len(working_credentials))
                 = working_credentials ]_vars

\* a run that found two working pairs, a refusal between them
C36_Witness ==
    /\ entry = "credential" /\ pc = "returned"
    /\ verdicts = <<"Succeeded", "Continue", "Succeeded">>
    /\ Len(working_credentials) = 2
    /\ Val(result).successful = TRUE
    /\ Val(result).working_credentials = working_credentials


\* C37: in every state of a generic run success_count <= total_attempts <=
\* success_count + 1, and in the returned result blocked = true implies
\* total_attempts = success_count + 1 and an error message.
C37_SuccessCountWithinOneOfTotal ==
    entry = "generic" =>
        /\ success_count <= total_attempts
        /\ total_attempts <= success_count + 1
        /\ result # None =>
              /\ Val(result).success_count <= Val(result).total_attempts
              /\ Val(result).total_attempts <= Val(result).success_count + 1
              /\ Val(result).blocked =>
                    /\ Val(result).total_attempts = Val(result).success_count + 1
                    /\ Val(result).error_message # None

\* two requests answered, the third refused with 503
C37_Witness ==
    /\ entry = "generic" /\ pc = "returned"
    /\ Val(result).blocked
    /\ Val(result).success_count = 2 /\ Val(result).total_attempts = 3
    /\ Val(result).status_code = Some(503)
    /\ Val(result).error_message # None


\* the status of the last exchange of the loop that got an HTTP response,
\* <<>> when none did
LastAnswered ==
    LET got == {i \in 1..Len(replies) : replies[i].status # None} IN
    IF got = {} THEN None
    ELSE replies[CHOOSE i \in got : \A j \in got : j <= i].status

\* C38: the status_code of a result is the status of the last exchange of
\* the run that got an HTTP response: an exchange that fails in transport
\* leaves it as the exchange before left it, None when no exchange of the
\* loop got a response; for an undetectable form it is the status of the
\* page fetch.
C38_StatusCodeOfLastAnsweredExchange ==
    (Probing /\ pc = "returned") =>
        /\ outcome = Some("Undetectable") =>
              /\ replies = <<>>
              /\ Val(result).status_code = Some(response.status_code)
        /\ outcome # Some("Undetectable") =>
              /\ Val(result).status_code = LastAnswered
              /\ (replies # <<>> /\ Last(replies).status # None) =>
                    Val(result).status_code = Last(replies).status
              /\ (Len(replies) >= 2 /\ Last(replies).failure # None) =>
                    Val(result).status_code = replies[Len(replies) - 1].status
              /\ (\A i \in 1..Len(replies) : replies[i].status = None) =>
                    Val(result).status_code = None

\* a refusal with 401, then a request that timed out: the result has 401
C38_Witness ==
    /\ entry = "credential" /\ pc = "returned"
    /\ Len(replies) = 2
    /\ replies[1].status = Some(401)
    /\ replies[2].failure = Some("Timeout")
    /\ Val(result).status_code = Some(401)
    /\ Val(result).blocked


\* C39: every login exchange of a credential run is a POST that carries
\* exactly the two detected field names, mapped to the identity and the
\* secret of its position, whatever method the form has; the detected field
\* names and the generated passwords do not change during the run.
C39_PostCarriesBothDetectedFields ==
    /\ [](entry = "credential" /\ fields # None =>
            \A i \in 1..Len(sent) :
               LET email_field == Val(Val(fields).email_field)
                   password_field == Val(Val(fields).password_field)
               IN  /\ sent[i].method = "POST"
                   /\ sent[i].url = Val(post_url)
                   /\ DOMAIN sent[i].login_data = {email_field, password_field}
                   /\ Cardinality(DOMAIN sent[i].login_data) = 2
                   /\ sent[i].login_data[email_field] = ProductAt(i).email
                   /\ sent[i].login_data[password_field] = ProductAt(i).password)
    /\ [](entry = "credential" /\ fields = None => sent = <<>>)
    /\ [][ entry = "credential" /\ fields # None =>
           /\ fields' = fields
           /\ passwords' = passwords
           /\ post_url' = post_url ]_vars


\* C34: instruction_parser gives a well-formed instruction for every message
\* body, JSON null, JSON numbers and objects whose url or action is no
\* string included: it never raises, status is 0 or 1, status 1 comes with
\* no error and with a validated url and action, status 0 with a non-empty
\* error and no action.  The entry point's own handler for exceptions is
\* never entered for a parsing failure.
C34_ParserTotalAndWellFormed ==
    entry = "entrypoint" =>
        \A i \in 1..done :
            LET instruction == instruction_parser(Records[i]) IN
            /\ instruction.status \in {0, 1}
            /\ instruction.status = 1 =>
                  /\ instruction.error = None
                  /\ instruction.url # None /\ instruction.action # None
                  /\ validate_url(Val(instruction.url)).valid
                  /\ Strip(Val(instruction.url)) = Val(instruction.url)
                  /\ Val(instruction.action) \in FourActions
            /\ instruction.status = 0 =>
                  /\ instruction.error # None /\ Val(instruction.error) # ""
                  /\ instruction.action = None
                  /\ ErrorsOf(i) = {Val(instruction.error)}
            /\ \A e \in ErrorsOf(i) : ~StartsWith(e, "Unexpected error: ")

\* the body null, which parse_sqs_message leaves without a result, has been
\* turned down with the parser's own error
C34_Witness ==
    /\ entry = "entrypoint" /\ done = 1
    /\ Records = <<"null">>
    /\ instruction_parser(Records[1]).status = 0
    /\ Len(failed_operations) = 1
    /\ failed_operations[1].error
          = "Parser error: 'NoneType' object is not subscriptable"
    /\ failed_operations[1].action = None

(***************************************************************************)
(* The command line of attempt_login.py (346-444): the arguments are       *)
(* validated, the run is made with them and the process leaves with a      *)
(* status computed from the run's result.  Positions: "main" (arguments    *)
(* parsed), those of the run, and "exited".                                *)
(***************************************************************************)
\* attempt_login.py 400-401: the arguments as argparse hands them over
MainInit ==
    /\ entry = "credential" /\ pc = "main"
    /\ emails \in EmailLists
    /\ keywords \in KeywordLists
    /\ period \in Periods
    /\ max_attempts \in CapChoices
    /\ server = "sampled"
    /\ rnd \in [1..Len(keywords) -> RandSamples]
    /\ InitLocals
    /\ max_per_keyword = DefaultMaxPerKeyword
    /\ html_content = <<>> /\ page_url = url
    /\ NoEvent

\* attempt_login.py 403-425: a refused argument ends the process with 1,
\* otherwise the run is entered
MainValidates ==
    /\ entry = "credential" /\ pc = "main"
    /\ IF \/ ~(StartsWith(url, "http://") \/ StartsWith(url, "https://"))
          \/ emails = <<>>
          \/ keywords = <<>>
          \/ period < 0
          \/ (max_attempts # None /\ Val(max_attempts) <= 0)
       THEN exit_code' = Some(1) /\ pc' = "exited"
       ELSE pc' = "fetch" /\ UNCHANGED exit_code
    /\ UNCHANGED << inputVars, max_per_keyword, html_content, page_url,
                    queueVars, running, choice, log, runs, draws,
                    credLocals, genericLocals, blocked, final_status,
                    error_message, response, result, sent, verdicts,
                    answered, replies, outcome, odd >>

\* attempt_login.py 438-444
ExitCode(res) ==
    IF ~Falsy(res.error_message) THEN 1
    ELSE IF res.blocked THEN 2
    ELSE 0

\* attempt_login.py 428-444: the run has returned its result
MainExits ==
    /\ entry = "credential" /\ pc = "returned" /\ exit_code = None
    /\ exit_code' = Some(ExitCode(Val(result)))
    /\ pc' = "exited"
    /\ UNCHANGED << inputVars, max_per_keyword, html_content, page_url,
                    queueVars, running, choice, log, runs, draws,
                    credLocals, genericLocals, blocked, final_status,
                    error_message, response, result, sent, verdicts,
                    answered, replies, outcome, odd >>

MainNext ==
    \/ MainValidates
    \/ CredFetch
    \/ CredFetchFails
    \/ CredHead
    \/ CredResponse
    \/ CredTransportFailure
    \/ CredSleep
    \/ CredInterrupt
    \/ MainExits

MainSpec == MainInit /\ [][MainNext]_vars

\* C33: when the run's result says blocked the command line leaves with 2;
\* otherwise it leaves with 1 when the result carries an error message and
\* with 0 when it carries none
C33_ExitCodeTwoWhenBlocked ==
    (pc = "exited" /\ result # None) =>
        Val(exit_code) = (IF Val(result).blocked THEN 2
                          ELSE IF ~Falsy(Val(result).error_message) THEN 1
                          ELSE 0)

(***************************************************************************)
(* The interactive menu (cli/menu.py PentestMenu).  What the user types at *)
(* a prompt is a line, <<>> when the prompt is interrupted (EOFError or    *)
(* KeyboardInterrupt).  Positions: "warning" (the legal warning is shown), *)
(* "menu" (the options are shown), "authorize" (an offensive tool asks for *)
(* authorization), "inputs" (it asks for its arguments), then those of the *)
(* probe run it calls, and "exited".  log holds the answer to the warning  *)
(* and what happened since the option being served was chosen.  The other  *)
(* tools are followed as one step each.                                    *)
(***************************************************************************)
\* menu.py 92: what input() gives at a yes/no prompt
YesNoInputs == {Some("y"), Some(" YES "), Some("n"), Some(""), Some("yeah"), None}

\* menu.py 341-345, 405-409: what input() gives at a numeric prompt
LineInputs == {Some(""), Some("1"), Some("x"), None}

\* any answer but n, and an interrupted prompt, taken for a yes
get_yes_no_DefaultYes(line) ==
    line = None \/ Lower(Strip(Val(line))) # "n"

\* menu.py 89-95
get_yes_no(line) ==
    line # None /\ Lower(Strip(Val(line))) \in {"y", "yes"}

\* int(text) and float(text) of menu.py 342-345 for a text of one digit;
\* <<>> stands for ValueError
Number(text) ==
    IF \E n \in 0..9 : IntToStr(n) = text
    THEN Some(CHOOSE n \in 0..9 : IntToStr(n) = text)
    ELSE None

\* menu.py 39-41 and 456-460: the menu is constructed and run
MenuInit ==
    /\ entry = "menu" /\ pc = "warning"
    /\ running = TRUE /\ choice = None /\ log = <<>>
    /\ exit_code = None
    /\ emails = <<>> /\ keywords = <<>> /\ rnd = <<>>
    /\ max_attempts = None /\ period = 1 /\ server = "sampled"
    /\ max_per_keyword = DefaultMaxPerKeyword
    /\ html_content = <<>> /\ page_url = url
    /\ Records = <<>> /\ done = 0
    /\ successful_operations = <<>> /\ failed_operations = <<>>
    /\ network = <<>>
    /\ runs = <<>> /\ draws = 0
    /\ InitLocals

\* menu.py 462-465: the legal warning is answered
MenuAcknowledge ==
    /\ entry = "menu" /\ pc = "warning"
    /\ \E line \in YesNoInputs :
         /\ log' = Append(log, [kind |-> "warning", value |-> line])
         /\ IF get_yes_no(line)
            THEN pc' = "menu" /\ UNCHANGED exit_code
            ELSE pc' = "exited" /\ exit_code' = Some(0)
    /\ UNCHANGED << inputVars, max_per_keyword, html_content, page_url,
                    queueVars, running, choice, runs, draws,
                    credLocals, genericLocals, blocked, final_status,
                    error_message, response, result, sent, verdicts,
                    answered, replies, outcome, odd >>

\* menu.py 467-497 with get_choice (59-66): one option is read and served
\* up to the first prompt of an offensive tool
MenuChoice ==
    /\ entry = "menu" /\ pc = "menu" /\ running
    /\ \E line \in {Some("4"), Some("5"), Some(" 6"), Some("7"), Some("0"),
                    Some("9"), None} :
         LET c == IF line = None THEN "0" ELSE Strip(Val(line))
             chosen == << log[1], [kind |-> "choice", value |-> Some(c)] >>
         IN  /\ choice' = Some(c)
             /\ IF c \in {"6", "7"}
                THEN /\ pc' = "authorize"
                     /\ log' = chosen
                     /\ UNCHANGED running
                ELSE IF c \in {"1", "2", "3", "4", "5"}
                THEN /\ pc' = "menu"
                     /\ log' = Append(chosen, [kind |-> "tool", value |-> Some(c)])
                     /\ UNCHANGED running
                ELSE IF c = "0"
                THEN /\ running' = FALSE
                     /\ pc' = "exited"
                     /\ log' = chosen
                ELSE /\ pc' = "menu"
                     /\ log' = chosen
                     /\ UNCHANGED running
    /\ UNCHANGED << inputVars, max_per_keyword, html_content, page_url,
                    queueVars, exit_code, runs, draws,
                    credLocals, genericLocals, blocked, final_status,
                    error_message, response, result, sent, verdicts,
                    answered, replies, outcome, odd >>

\* menu.py 330-333 and 383-386: the authorization question of tool_ddos and
\* of tool_login
MenuAuthorize ==
    /\ entry = "menu" /\ pc = "authorize"
    /\ \E line \in YesNoInputs :
         /\ log' = Append(log, [kind |-> "authorization", value |-> line])
         /\ pc' = IF get_yes_no(line) THEN "inputs" ELSE "menu"
    /\ UNCHANGED << inputVars, max_per_keyword, html_content, page_url,
                    queueVars, exit_code, running, choice, runs, draws,
                    credLocals, genericLocals, blocked, final_status,
                    error_message, response, result, sent, verdicts,
                    answered, replies, outcome, odd >>

\* menu.py 335-367 and 388-448: the arguments are asked for and the probe
\* is called.  target is the line at the URL prompt, the lines that begin
\* with http; identities and seeds are the lines of the two prompts of
\* tool_login, without commas; interval and limit are those of the two
\* numeric prompts, the second of which is not reached when the first raises
MenuInputs ==
    /\ entry = "menu" /\ pc = "inputs"
    /\ \E target \in {Some(url), Some(""), None},
          identities \in {Some(" a@x.com "), Some(""), None},
          seeds \in {Some("pw"), Some(""), None},
          interval \in LineInputs, limit \in LineInputs :
         LET login == choice = Some("7")
             blank(line) == line = None \/ Strip(Val(line)) = ""
             bad(line) == Strip(Val(line)) # "" /\ Number(Strip(Val(line))) = None
             returns == \/ blank(target)
                        \/ login /\ (blank(identities) \/ blank(seeds))
                        \/ interval = None
                        \/ ~bad(interval) /\ limit = None
             defaults == bad(interval) \/ bad(limit)
             function == IF login THEN "attempt_credential_combinations"
                         ELSE "make_requests_until_blocked"
         IN  IF returns
             THEN /\ pc' = "menu"
                  /\ UNCHANGED << entry, emails, keywords, rnd, period,
                                  max_attempts, log >>
             ELSE /\ entry' = IF login THEN "credential" ELSE "generic"
                  /\ pc' = IF login THEN "fetch" ELSE "head"
                  /\ emails' = IF login THEN << Strip(Val(identities)) >> ELSE <<>>
                  /\ keywords' = IF login THEN << Strip(Val(seeds)) >> ELSE <<>>
                  /\ rnd' \in [1..Len(keywords') -> RandSamples]
                  /\ period' = IF defaults \/ blank(interval) THEN 1
                               ELSE Val(Number(Strip(Val(interval))))
                  /\ max_attempts' = IF defaults \/ blank(limit) THEN None
                                     ELSE Number(Strip(Val(limit)))
                  /\ log' = Append(log, [kind |-> "call", value |-> Some(function)])
    /\ UNCHANGED << server, max_per_keyword, html_content, page_url,
                    queueVars, exit_code, running, choice, runs, draws,
                    credLocals, genericLocals, blocked, final_status,
                    error_message, response, result, sent, verdicts,
                    answered, replies, outcome, odd >>

\* menu.py 361-372 and 441-453: the probe has returned or raised; the tool
\* pauses and returns to the menu, its locals are gone
MenuPause ==
    /\ entry \in {"generic", "credential"} /\ running
    /\ pc \in {"returned", "raised"}
    /\ entry' = "menu" /\ pc' = "menu"
    /\ emails' = <<>> /\ keywords' = <<>> /\ rnd' = <<>>
    /\ max_attempts' = None /\ period' = 1
    /\ fields' = None /\ passwords' = <<>> /\ post_url' = None /\ idx' = 0
    /\ attempts' = 0 /\ successful' = FALSE /\ working_credentials' = <<>>
    /\ total_attempts' = 0 /\ success_count' = 0
    /\ blocked' = FALSE /\ final_status' = None /\ error_message' = None
    /\ response' = None /\ result' = None
    /\ sent' = <<>> /\ verdicts' = <<>> /\ answered' = 0 /\ replies' = <<>>
    /\ outcome' = None /\ odd' = 0
    /\ UNCHANGED << server, max_per_keyword, html_content, page_url,
                    queueVars, exit_code, running, choice, log, runs, draws >>

MenuNext ==
    \/ MenuAcknowledge
    \/ MenuChoice
    \/ MenuAuthorize
    \/ MenuInputs
    \/ MenuPause
    \/ GenericHead
    \/ GenericResponse
    \/ GenericTransportFailure
    \/ GenericSleep
    \/ GenericInterrupt
    \/ CredFetch
    \/ CredFetchFails
    \/ CredHead
    \/ CredResponse
    \/ CredTransportFailure
    \/ CredSleep
    \/ CredInterrupt

MenuSpec == MenuInit /\ [][MenuNext]_vars

\* what the claim calls answering yes: y or yes was typed
AnsweredYes(line) == line # None /\ Lower(Strip(Val(line))) \in {"y", "yes"}

\* positions of log with an event of this kind
EventsOf(kind) == {i \in 1..Len(log) : log[i].kind = kind}

\* the warning was answered with yes
Acknowledged == log # <<>> /\ log[1].kind = "warning" /\ AnsweredYes(log[1].value)

\* the authorization question of the tool being served was answered with yes
Authorized ==
    \E j \in EventsOf("authorization") :
        /\ AnsweredYes(log[j].value)
        /\ \E c \in EventsOf("choice") : c < j /\ log[c].value \in {Some("6"), Some("7")}

\* C35: in the menu a probe is called, is running or has sent a request only
\* after the authorization question of the tool being served was answered
\* with yes; no tool runs and no probe is called unless the legal warning
\* was answered with yes; after any other answer to the authorization
\* question, or an interrupted prompt, nothing is called and nothing is sent
C35_NoProbeWithoutAuthorization ==
    running =>
        /\ (\A i \in EventsOf("call") :
                \E j \in EventsOf("authorization") : j < i /\ AnsweredYes(log[j].value))
        /\ (entry \in {"generic", "credential"} \/ sent # <<>> \/ pc = "inputs")
               => Authorized /\ Acknowledged
        /\ (EventsOf("tool") \cup EventsOf("call") # {}) => Acknowledged
        /\ ~Acknowledged => (pc \in {"warning", "exited"} /\ entry = "menu" /\ sent = <<>>)
        /\ (\E j \in EventsOf("authorization") : ~AnsweredYes(log[j].value))
               => /\ EventsOf("call") = {}
                  /\ entry = "menu" /\ pc = "menu"
                  /\ sent = <<>>

\* a login probe called from the menu has sent a request, the warning having
\* been answered " YES " and the authorization question y
C35_Witness ==
    /\ running /\ entry = "credential" /\ sent # <<>>
    /\ log[1].value = Some(" YES ")
    /\ \E j \in EventsOf("authorization") : log[j].value = Some("y")

(***************************************************************************)
(* Two probe runs in one process, as threads.  A run's locals, its Session *)
(* among them, are created by its call (ddos.py 41-45, attempt_login.py    *)
(* 130-145) and are one record of runs.  random.choice and random.randint  *)
(* (ddos.py 72 and 81, attempt_login.py 36 and 217) are functions of the   *)
(* one generator of the random module: draws counts the values it has      *)
(* given, and the k-th value is the same whoever asks for it.  A run takes *)
(* one step at a time, from an event: a response with the cookie it sets,  *)
(* a failed request, or nothing when the step does no request.  Interrupts *)
(* are left out (KeyboardInterrupt reaches the main thread only).          *)
(***************************************************************************)
\* the caps the two runs are called with: the first run can try every
\* password generated from its keyword, the second makes few requests
ParCap == 7
ShortCap == 1

\* random.randint(1, 99) at the k-th draw of a seeded generator
RandAt(k) == ((k * 37) % 99) + 1

\* ddos.py 41-45 and attempt_login.py 130-145: the locals of a run at its
\* start; cookies is the jar of its Session
RunStart(kind, cap) ==
    [kind |-> kind,
     pc |-> IF kind = "credential" THEN "fetch" ELSE "head",
     emails |-> <<"a@x.com">>, keywords |-> <<"1">>,
     max_attempts |-> Some(cap),
     passwords |-> <<>>, idx |-> 0, attempts |-> 0, success_count |-> 0,
     successful |-> FALSE, working_credentials |-> <<>>,
     blocked |-> FALSE, final_status |-> None, error_message |-> None,
     cookies |-> {}, trace |-> <<>>]

\* what the next step of a run may meet; a login run is followed through
\* one accepted pair at most
ParEvents(st) ==
    LET Event(resp, failure, set_cookie) ==
            [resp |-> resp, failure |-> failure, set_cookie |-> set_cookie]
    IN  IF st.pc = "fetch"
        THEN { Event(Some(Resp(200, LoginForm(None, None), None)), None, Some("csrf=1")),
               Event(Some(Resp(404, <<>>, None)), None, None),
               Event(None, Some("Timeout"), None) }
        ELSE IF st.pc = "exchange" /\ st.kind = "credential"
        THEN { Event(Some(PlainResponse), None, None),
               Event(Some(Resp(429, "", None)), None, None),
               Event(None, Some("Timeout"), None) }
             \cup (IF st.working_credentials = <<>>
                   THEN {Event(Some(Resp(302, "", Some("/home"))), None, Some("sid=1"))}
                   ELSE {})
        ELSE IF st.pc = "exchange"
        THEN { Event(Some(Resp(200, "ok", None)), None, Some("sid=2")),
               Event(Some(Resp(429, "", None)), None, None),
               Event(None, Some("Timeout"), None) }
        ELSE { Event(None, None, None) }

\* how many values of the generator the step takes: attempt_login.py 36
\* (once for every keyword) and 217, ddos.py 72 and 81
Draws(st, ev) ==
    IF st.kind = "credential"
    THEN IF st.pc = "fetch" /\ ev.resp # None
            /\ ~Undetectable(detect_form_fields(Val(ev.resp).text))
         THEN Len(st.keywords)
         ELSE IF st.pc = "head" /\ st.idx < Len(st.emails) * Len(st.passwords)
                 /\ st.attempts < Val(st.max_attempts)
         THEN 1
         ELSE 0
    ELSE IF st.pc = "head" /\ st.attempts < Val(st.max_attempts) THEN 2 ELSE 0

\* one step of a run whose locals are st, from event ev, the generator
\* having given g values before: attempt_login.py 158-306 and ddos.py 61-134
Step(st, ev, g) ==
    LET seen == [st EXCEPT !.trace = Append(@, ev)]
        \* requests.Session keeps the cookies of every response it receives
        kept == [seen EXCEPT !.cookies = IF ev.set_cookie = None THEN @
                                         ELSE @ \cup {Val(ev.set_cookie)}]
        capped == st.max_attempts # None /\ st.attempts >= Val(st.max_attempts)
        pair == [email |-> st.emails[((st.idx - 1) \div Len(st.passwords)) + 1],
                 password |-> st.passwords[((st.idx - 1) % Len(st.passwords)) + 1]]
    IN  IF st.kind = "credential"
        THEN CASE st.pc = "fetch" ->
                    IF ev.failure # None
                    THEN [seen EXCEPT !.pc = "returned",
                                      !.error_message =
                                          Some("Unexpected error: "
                                               \o ExcText(Val(ev.failure)))]
                    ELSE IF Undetectable(detect_form_fields(Val(ev.resp).text))
                    THEN [kept EXCEPT !.pc = "returned",
                                      !.final_status = Some(Val(ev.resp).status_code),
                                      !.error_message =
                                          Some("Could not detect email/password fields in the form")]
                    ELSE [kept EXCEPT !.pc = "head",
                                      !.passwords =
                                          generate_password_combinations(
                                              st.keywords, DefaultMaxPerKeyword,
                                              [i \in 1..Len(st.keywords) |-> RandAt(g + i)])]
               [] st.pc = "head" ->
                    IF st.idx >= Len(st.emails) * Len(st.passwords)
                    THEN [seen EXCEPT !.pc = "returned"]
                    ELSE IF capped
                    THEN [seen EXCEPT !.idx = @ + 1, !.pc = "returned"]
                    ELSE [seen EXCEPT !.idx = @ + 1, !.attempts = @ + 1,
                                      !.pc = "exchange"]
               [] st.pc = "exchange" ->
                    IF ev.failure # None
                    THEN [seen EXCEPT !.blocked = TRUE,
                                      !.error_message =
                                          Some(CredFailureMessage(Val(ev.failure))),
                                      !.pc = "returned"]
                    ELSE LET v == ClassifyCredential(Val(ev.resp))
                         IN  [kept EXCEPT
                                !.final_status = Some(Val(ev.resp).status_code),
                                !.working_credentials = WorkingAfter(@, v.kind, pair),
                                !.successful = (@ \/ v.kind = "Succeeded"),
                                !.blocked = (@ \/ v.kind = "Blocked"),
                                !.error_message = IF v.kind = "Blocked"
                                                  THEN v.error_message ELSE @,
                                !.pc = PcAfter(v.kind)]
               [] OTHER -> [seen EXCEPT !.pc = "head"]
        ELSE CASE st.pc = "head" ->
                    IF capped
                    THEN [seen EXCEPT !.pc = "returned"]
                    ELSE [seen EXCEPT !.attempts = @ + 1, !.pc = "exchange"]
               [] st.pc = "exchange" ->
                    IF ev.failure # None
                    THEN [seen EXCEPT !.blocked = TRUE,
                                      !.error_message =
                                          Some(GenericFailureMessage(Val(ev.failure))),
                                      !.pc = "returned"]
                    ELSE LET v == ClassifyGeneric(Val(ev.resp))
                         IN  \* requests.get makes a Session of its own and drops it
                             [seen EXCEPT
                                !.final_status = Some(Val(ev.resp).status_code),
                                !.success_count = IF v.kind = "Blocked" THEN @ ELSE @ + 1,
                                !.blocked = (@ \/ v.kind = "Blocked"),
                                !.error_message = IF v.kind = "Blocked"
                                                  THEN v.error_message ELSE @,
                                !.pc = PcAfter(v.kind)]
               [] OTHER -> [seen EXCEPT !.pc = "head"]

\* two runs are started in a process whose generator has given nothing yet
ParInit ==
    /\ entry = "parallel" /\ pc = "threads"
    /\ \E kind \in {"generic", "credential"} :
         runs = << RunStart("credential", ParCap), RunStart(kind, ShortCap) >>
    /\ draws = 0
    /\ exit_code = None /\ running = FALSE /\ choice = None /\ log = <<>>
    /\ emails = <<>> /\ keywords = <<>> /\ rnd = <<>>
    /\ max_attempts = None /\ period = 1 /\ server = "sampled"
    /\ max_per_keyword = DefaultMaxPerKeyword
    /\ html_content = <<>> /\ page_url = url
    /\ Records = <<>> /\ done = 0
    /\ successful_operations = <<>> /\ failed_operations = <<>>
    /\ network = <<>>
    /\ InitLocals

\* the thread of run r is scheduled for one step
ParRun(r) ==
    /\ entry = "parallel" /\ runs[r].pc # "returned"
    /\ \E ev \in ParEvents(runs[r]) :
         /\ runs' = [runs EXCEPT ![r] = Step(runs[r], ev, draws)]
         /\ draws' = draws + Draws(runs[r], ev)
    /\ UNCHANGED << inputVars, pc, max_per_keyword, html_content, page_url,
                    queueVars, exit_code, running, choice, log,
                    credLocals, genericLocals, blocked, final_status,
                    error_message, response, result, sent, verdicts,
                    answered, replies, outcome, odd >>

ParNext == \E r \in 1..2 : ParRun(r)

ParSpec == ParInit /\ [][ParNext]_vars

\* the locals a run has after the events of trace when no other run uses
\* the process: the generator gives it its own draws only
RECURSIVE Replay(_, _, _, _)
Replay(st, trace, i, g) ==
    IF i > Len(trace) THEN st
    ELSE Replay(Step(st, trace[i], g), trace, i + 1, g + Draws(st, trace[i]))

Alone(st) == Replay(RunStart(st.kind, Val(st.max_attempts)), st.trace, 1, 0)

\* what a run returns, and the cookies of its Session
Observed(st) ==
    [attempts |-> st.attempts, blocked |-> st.blocked,
     status_code |-> st.final_status, error_message |-> st.error_message,
     success_count |-> st.success_count, successful |-> st.successful,
     working_credentials |-> st.working_credentials,
     cookies |-> st.cookies]

\* C32: under every interleaving of the steps of two runs of one process,
\* what each run returns and the cookies of its session are what the run
\* has when it meets the same responses alone
C32_ParallelRunsAsIfAlone ==
    entry = "parallel" =>
        \A r \in 1..2 : Observed(runs[r]) = Observed(Alone(runs[r]))

====
